---- MODULE Spec2Model ----
(***************************************************************************)
(* E-commerce recommender: the store (users, products, interactions), the  *)
(* creation endpoints and the hybrid recommendation engine of              *)
(* backend/app/services/recommender.py.                                    *)
(*                                                                         *)
(* Numbers.  The engine computes in floats.  Here every score is a         *)
(* fixed-point integer in units of 1/Scale (the four decimals the engine   *)
(* rounds its results to) and every interaction weight an integer in units *)
(* of 1/WeightScale.  Quotients are floor quotients computed by long       *)
(* division (FDiv), so x/x is exactly Scale and 0 <= a <= c gives          *)
(* 0 <= a/c <= Scale, as in IEEE arithmetic.                               *)
(*                                                                         *)
(* Time.  The clock counts hours; an interaction's age in days is the      *)
(* floor of its age in hours over HoursPerDay (timedelta.days).            *)
(***************************************************************************)
EXTENDS Integers, Sequences, FiniteSets, TLC

VARIABLES users, products, interactions, recommendations, now, response

vars == <<users, products, interactions, recommendations, now, response>>

-----------------------------------------------------------------------------
(* Bounds of the model *)

MaxUsers == 2
MaxProducts == 3
MaxInteractions == 3
MaxTopK == 2
MaxCatalogue == 5
MaxCap == 3
MaxScoredIds == 2
MaxSeeded == 2
MaxRows == 22
MaxLimit == 22
MaxInsightRows == 6
MaxStored == 2
MaxCrowd == 7

(* Program constants *)

Scale == 10000
WeightScale == Scale \div 10
HoursPerDay == 24
recency_days == 30
max_per_category == 3
similar_users_top_k == 5

NoBrand == "none"
NoResponse == [call |-> [kind |-> "none"]]

\* The emails of the sign-up requests, in the order they first arrive.
Emails == <<"a@shop.test", "b@shop.test", "c@shop.test", "d@shop.test">>
InteractionTypes == {"view", "click", "cart", "purchase", "rating"}

\* Base weight of each interaction type, in units of 1/WeightScale.
interaction_weights ==
    [view |-> 1 * WeightScale, click |-> 2 * WeightScale, cart |-> 3 * WeightScale,
     purchase |-> 5 * WeightScale, rating |-> 4 * WeightScale]

\* The product rows the creation requests draw from: category, optional
\* brand, price (> 0), optional attributes ("key:value" pairs), rating.
Book1 == [category |-> "Books", brand |-> "Acme", price |-> 10,
          attributes |-> {"format:paperback"}, rating |-> 4]
Book2 == [category |-> "Books", brand |-> NoBrand, price |-> 30,
          attributes |-> {}, rating |-> 3]
Gadget1 == [category |-> "Electronics", brand |-> "Acme", price |-> 30,
            attributes |-> {"color:black"}, rating |-> 4]
Gadget2 == [category |-> "Electronics", brand |-> NoBrand, price |-> 10,
            attributes |-> {"format:paperback"}, rating |-> 5]

ProductInputs == {Book1, Gadget1}

\* The interaction requests the clients send: those of the worked example
\* (user 1 purchases product 1 and views product 2, user 2 purchases
\* products 1 and 3).
InteractionInputs ==
    {[user_id |-> 1, product_id |-> 1, interaction_type |-> "purchase"],
     [user_id |-> 1, product_id |-> 2, interaction_type |-> "view"],
     [user_id |-> 2, product_id |-> 1, interaction_type |-> "purchase"],
     [user_id |-> 2, product_id |-> 3, interaction_type |-> "purchase"]}

\* The instants (in hours) the clock visits: the start, and the length of
\* the lookback window and half a day more after it.
TimePoints == {0, recency_days * HoursPerDay, recency_days * HoursPerDay + 12}

-----------------------------------------------------------------------------
(* Generic helpers *)

Range(s) == {s[i] : i \in DOMAIN s}

Min2(a, b) == IF a <= b THEN a ELSE b

Abs(x) == IF x < 0 THEN -x ELSE x

RECURSIVE SumSeq(_)
SumSeq(s) == IF s = <<>> THEN 0 ELSE Head(s) + SumSeq(Tail(s))

RECURSIVE SumFun(_, _)
\* Sum of f[x] over the finite set S.
SumFun(f, S) ==
    IF S = {} THEN 0
    ELSE LET x == CHOOSE y \in S : TRUE IN f[x] + SumFun(f, S \ {x})

RECURSIVE MaxOfSet(_)
MaxOfSet(S) ==
    LET x == CHOOSE y \in S : TRUE
    IN IF S = {x} THEN x
       ELSE LET m == MaxOfSet(S \ {x}) IN IF x >= m THEN x ELSE m

RECURSIVE SetToSeqAsc(_)
\* The elements of a finite set of integers, ascending.
SetToSeqAsc(S) ==
    IF S = {} THEN <<>>
    ELSE LET m == CHOOSE x \in S : \A y \in S : x <= y
         IN <<m>> \o SetToSeqAsc(S \ {m})

Prefix(s, n) == SubSeq(s, 1, Min2(n, Len(s)))

RECURSIVE Reverse(_)
Reverse(s) == IF s = <<>> THEN <<>> ELSE Append(Reverse(Tail(s)), Head(s))

\* Float division a / c (c > 0, a >= 0) at resolution 1/Scale: the floor of
\* a * Scale / c, by long division, one decimal digit at a time.
FDiv(a, c) ==
    LET q0 == a \div c
        r0 == a % c
        d1 == (r0 * 10) \div c
        r1 == (r0 * 10) % c
        d2 == (r1 * 10) \div c
        r2 == (r1 * 10) % c
        d3 == (r2 * 10) \div c
        r3 == (r2 * 10) % c
        d4 == (r3 * 10) \div c
    IN q0 * Scale + d1 * 1000 + d2 * 100 + d3 * 10 + d4

RECURSIVE SqrtIter(_, _)
SqrtIter(n, x) ==
    LET y == (x + n \div x) \div 2
    IN IF y >= x THEN x ELSE SqrtIter(n, y)

\* np.sqrt on a non-negative number: the integer square root.
Sqrt(n) == IF n = 0 THEN 0 ELSE SqrtIter(n, n)

-----------------------------------------------------------------------------
(* The store *)

UserIds == 1 .. Len(users)
ProductIds == 1 .. Len(products)

TypeOK ==
    /\ users \in Seq(Range(Emails))
    /\ products \in Seq({Book1, Book2, Gadget1, Gadget2})
    /\ now \in TimePoints

\* The response variable holds the result of a recommendation call until
\* its caller takes it; requests are served one at a time.
Idle == response = NoResponse

Init ==
    /\ users = <<>>
    /\ products = <<>>
    /\ interactions = <<>>
    /\ recommendations = <<>>
    /\ now = 0
    /\ response = NoResponse

\* POST /users/: 400 and no change when the email is taken, else the row is
\* added with the next id.
CreateUser(email) ==
    /\ Idle
    /\ IF email \in Range(users)
       THEN UNCHANGED users
       ELSE /\ Len(users) < MaxUsers
            /\ users' = Append(users, email)
    /\ UNCHANGED <<products, interactions, recommendations, now, response>>

\* POST /products/: the row is added with the next id.
CreateProduct(p) ==
    /\ Idle
    /\ Len(products) < MaxProducts
    /\ products' = Append(products, p)
    /\ UNCHANGED <<users, interactions, recommendations, now, response>>

\* POST /interactions/: 404 and no change for an unknown user or product,
\* else the row is added with timestamp utcnow (the column default).
CreateInteraction(user_id, product_id, interaction_type) ==
    /\ Idle
    /\ IF user_id \notin UserIds \/ product_id \notin ProductIds
       THEN UNCHANGED interactions
       ELSE interactions' = Append(interactions,
                [user_id |-> user_id, product_id |-> product_id,
                 interaction_type |-> interaction_type, timestamp |-> now])
    /\ UNCHANGED <<users, products, recommendations, now, response>>

\* The caller takes the recommendation response.
Return ==
    /\ ~Idle
    /\ response' = NoResponse
    /\ UNCHANGED <<users, products, interactions, recommendations, now>>

\* Time passes.
Tick ==
    /\ Idle
    /\ \E t \in TimePoints : t > now /\ now' = t
    /\ UNCHANGED <<users, products, interactions, recommendations, response>>

-----------------------------------------------------------------------------
(* The engine: RecommendationEngine *)

\* Mutant: the cutoff test is dropped.
InWindow_Always(i) == TRUE

\* timestamp >= utcnow() - timedelta(days = recency_days)
InWindow(i) == interactions[i].timestamp >= now - recency_days * HoursPerDay

\* (utcnow() - timestamp).days
DaysAgo(i) == (now - interactions[i].timestamp) \div HoursPerDay

\* Mutant: the recency decay is dropped.
Weight_NoDecay(interaction_type, days_ago) == interaction_weights[interaction_type]

\* interaction_weights[type] * (1.0 / (1.0 + days_ago * 0.1))
Weight(interaction_type, days_ago) ==
    (interaction_weights[interaction_type] * 10) \div (10 + days_ago)

InteractionWeight(i) == Weight(interactions[i].interaction_type, DaysAgo(i))

\* _get_user_interactions: the user's in-window interactions, most recent
\* first (timestamps grow with the id), each with its recency weight.
UserInteractionIds(user_id) ==
    LET Mine(i) == interactions[i].user_id = user_id /\ InWindow(i)
    IN Reverse(SelectSeq([i \in DOMAIN interactions |-> i], Mine))

GetUserInteractions(user_id) ==
    LET ids == UserInteractionIds(user_id)
    IN [k \in DOMAIN ids |->
           [product_id |-> interactions[ids[k]].product_id,
            interaction_type |-> interactions[ids[k]].interaction_type,
            weight |-> InteractionWeight(ids[k]),
            timestamp |-> interactions[ids[k]].timestamp]]

\* _build_user_product_matrix: for every user with an in-window interaction,
\* the vector product -> sum of the weights of the pair's in-window
\* interactions.
WindowIds == {i \in DOMAIN interactions : InWindow(i)}

MatrixUsers == {interactions[i].user_id : i \in WindowIds}

\* Mutant: an entry holds the weight of the pair's last interaction.
UserVector_LastWins(u) ==
    LET mine == {i \in WindowIds : interactions[i].user_id = u}
    IN [p \in {interactions[i].product_id : i \in mine} |->
           InteractionWeight(MaxOfSet({i \in mine : interactions[i].product_id = p}))]

UserVector(u) ==
    LET mine == {i \in WindowIds : interactions[i].user_id = u}
        w == [i \in mine |-> InteractionWeight(i)]
    IN [p \in {interactions[i].product_id : i \in mine} |->
           SumFun(w, {i \in mine : interactions[i].product_id = p})]

BuildUserProductMatrix == [u \in MatrixUsers |-> UserVector(u)]

\* The matrix is a dict: its key order is the order of first insertion.
MatrixUserOrder ==
    LET First(u) == CHOOSE i \in WindowIds :
                        /\ interactions[i].user_id = u
                        /\ \A j \in WindowIds :
                               interactions[j].user_id = u => i <= j
        firsts == {First(u) : u \in MatrixUsers}
        ord == SetToSeqAsc(firsts)
    IN [k \in DOMAIN ord |-> interactions[ord[k]].user_id]

\* Mutant: the test for common products is inverted.
CosineSimilarity_Inverted(vector1, vector2) ==
    IF DOMAIN vector1 \cap DOMAIN vector2 # {} THEN 0 ELSE Scale

\* _cosine_similarity of two sparse vectors.
CosineSimilarity(vector1, vector2) ==
    LET common == DOMAIN vector1 \cap DOMAIN vector2
        prod == [p \in common |-> vector1[p] * vector2[p]]
        sq1 == [p \in DOMAIN vector1 |-> vector1[p] * vector1[p]]
        sq2 == [p \in DOMAIN vector2 |-> vector2[p] * vector2[p]]
        dot_product == SumFun(prod, common)
        magnitude1 == Sqrt(SumFun(sq1, DOMAIN vector1))
        magnitude2 == Sqrt(SumFun(sq2, DOMAIN vector2))
    IN IF common = {} THEN 0
       ELSE IF magnitude1 = 0 \/ magnitude2 = 0 THEN 0
       ELSE FDiv(dot_product, magnitude1 * magnitude2)

RECURSIVE InsertDesc(_, _)
\* x into the score-descending sequence s, after the entries that score
\* at least as much (the sort is stable).
InsertDesc(s, x) ==
    IF s = <<>> THEN <<x>>
    ELSE IF Head(s).score >= x.score THEN <<Head(s)>> \o InsertDesc(Tail(s), x)
         ELSE <<x>> \o s

RECURSIVE SortDesc(_)
\* sorted(..., key = score, reverse = True): stable, descending.
SortDesc(s) ==
    IF s = <<>> THEN <<>>
    ELSE InsertDesc(SortDesc(SubSeq(s, 1, Len(s) - 1)), s[Len(s)])

\* Mutant: the similarities are cut in matrix order, without the sort.
FindSimilarUsers_Unsorted(user_id, matrix) ==
    IF user_id \notin DOMAIN matrix THEN <<>>
    ELSE LET order == MatrixUserOrder
             sims == [k \in DOMAIN order |->
                         [user_id |-> order[k],
                          score |-> IF order[k] = user_id THEN 0
                                    ELSE CosineSimilarity(matrix[user_id],
                                                          matrix[order[k]])]]
             Positive(e) == e.user_id # user_id /\ e.score > 0
         IN Prefix(SelectSeq(sims, Positive), similar_users_top_k)

\* _find_similar_users: the top_k other users of positive similarity.
FindSimilarUsers(user_id, matrix) ==
    IF user_id \notin DOMAIN matrix THEN <<>>
    ELSE LET order == MatrixUserOrder
             sims == [k \in DOMAIN order |->
                         [user_id |-> order[k],
                          score |-> IF order[k] = user_id THEN 0
                                    ELSE CosineSimilarity(matrix[user_id],
                                                          matrix[order[k]])]]
             Positive(e) == e.user_id # user_id /\ e.score > 0
         IN Prefix(SortDesc(SelectSeq(sims, Positive)), similar_users_top_k)

\* Mutant: the products the target user touched are not skipped.
CollabRaw_NoSkip(user_id, matrix) ==
    LET similar_users == FindSimilarUsers(user_id, matrix)
        touched == UNION {DOMAIN matrix[similar_users[k].user_id] :
                              k \in DOMAIN similar_users}
        Term(k, p) ==
            IF p \in DOMAIN matrix[similar_users[k].user_id]
            THEN (matrix[similar_users[k].user_id][p] * similar_users[k].score) \div 10
            ELSE 0
    IN [p \in touched |-> SumSeq([k \in DOMAIN similar_users |-> Term(k, p)])]

\* The raw collaborative scores: neighbour weight x similarity, summed over
\* the neighbours, for the products the target user has not touched.
CollabRaw(user_id, matrix) ==
    LET similar_users == FindSimilarUsers(user_id, matrix)
        target_user_products == DOMAIN matrix[user_id]
        touched == UNION {DOMAIN matrix[similar_users[k].user_id] :
                              k \in DOMAIN similar_users}
        Term(k, p) ==
            IF p \in DOMAIN matrix[similar_users[k].user_id]
            THEN (matrix[similar_users[k].user_id][p] * similar_users[k].score) \div 10
            ELSE 0
    IN [p \in touched \ target_user_products |->
           SumSeq([k \in DOMAIN similar_users |-> Term(k, p)])]

\* Mutant: the scores are not normalized.
Normalize_Skipped(scores) == scores

\* Mutant: the scores are divided by their sum instead of their maximum.
Normalize_BySum(scores) ==
    IF DOMAIN scores = {} THEN scores
    ELSE LET total == SumFun(scores, DOMAIN scores)
         IN IF total > 0
            THEN [p \in DOMAIN scores |-> FDiv(scores[p], total)]
            ELSE scores

\* score / max_score over a batch, when the batch is non-empty and its
\* maximum is positive.
Normalize(scores) ==
    IF DOMAIN scores = {} THEN scores
    ELSE LET max_score == MaxOfSet({scores[p] : p \in DOMAIN scores})
         IN IF max_score > 0
            THEN [p \in DOMAIN scores |-> FDiv(scores[p], max_score)]
            ELSE scores

\* Mutant: a target user without a row gets no scores, and the products no
\* neighbour touched are left out.
CollaborativeFiltering_Sparse(user_id, product_ids) ==
    LET matrix == BuildUserProductMatrix
    IN IF user_id \notin DOMAIN matrix THEN <<>>
       ELSE LET scores == Normalize(CollabRaw(user_id, matrix))
            IN [p \in product_ids \cap DOMAIN scores |-> scores[p]]

\* _collaborative_filtering
CollaborativeFiltering(user_id, product_ids) ==
    LET matrix == BuildUserProductMatrix
    IN IF user_id \notin DOMAIN matrix THEN [p \in product_ids |-> 0]
       ELSE LET scores == Normalize(CollabRaw(user_id, matrix))
            IN [p \in product_ids |->
                   IF p \in DOMAIN scores THEN scores[p] ELSE 0]

\* _build_user_profile: category, brand and attribute weights and the prices
\* of the products of the user's interactions.
BuildUserProfile(user_interactions) ==
    LET K == DOMAIN user_interactions
        Prod(k) == products[user_interactions[k].product_id]
        w == [k \in K |-> user_interactions[k].weight]
        price == [k \in K |-> Prod(k).price]
    IN [categories |->
            [c \in {Prod(k).category : k \in K} |->
                SumFun(w, {k \in K : Prod(k).category = c})],
        brands |->
            [b \in {Prod(k).brand : k \in K} \ {NoBrand} |->
                SumFun(w, {k \in K : Prod(k).brand = b})],
        attributes |->
            [a \in UNION {Prod(k).attributes : k \in K} |->
                SumFun(w, {k \in K : a \in Prod(k).attributes})],
        price_sum |-> SumFun(price, K),
        price_count |-> Cardinality(K)]

\* _calculate_product_similarity: 0.4 category share + 0.2 brand share
\* + 0.2 price proximity + 0.2 attribute overlap.  avg_price is
\* price_sum / price_count, so 1 / (1 + |price - avg| / avg) is
\* price_sum / (price_sum + |price_count * price - price_sum|).
CalculateProductSimilarity(product, user_profile) ==
    LET categories == user_profile.categories
        brands == user_profile.brands
        attrs == DOMAIN user_profile.attributes
        category_term ==
            IF product.category \in DOMAIN categories
            THEN (4 * FDiv(categories[product.category],
                           SumFun(categories, DOMAIN categories))) \div 10
            ELSE 0
        brand_term ==
            IF product.brand # NoBrand /\ product.brand \in DOMAIN brands
            THEN (2 * FDiv(brands[product.brand],
                           SumFun(brands, DOMAIN brands))) \div 10
            ELSE 0
        price_term ==
            IF user_profile.price_sum > 0
            THEN (2 * FDiv(user_profile.price_sum,
                           user_profile.price_sum
                           + Abs(user_profile.price_count * product.price
                                 - user_profile.price_sum))) \div 10
            ELSE 0
        attribute_term ==
            IF product.attributes # {} /\ attrs # {}
            THEN (2 * FDiv(Cardinality(product.attributes \cap attrs),
                           Cardinality(attrs))) \div 10
            ELSE 0
    IN category_term + brand_term + price_term + attribute_term

\* The raw content scores: the similarity of every product to the profile.
ContentRaw(product_ids, user_interactions) ==
    LET user_profile == BuildUserProfile(user_interactions)
    IN [p \in product_ids |->
           CalculateProductSimilarity(products[p], user_profile)]

\* _content_based_filtering
ContentBasedFiltering(user_id, product_ids, user_interactions) ==
    IF user_interactions = <<>> THEN [p \in product_ids |-> 0]
    ELSE Normalize(ContentRaw(product_ids, user_interactions))

RECURSIVE SetTableSizeFrom(_, _)
SetTableSizeFrom(size, n) ==
    IF n * 5 < (size - 1) * 3 THEN size ELSE SetTableSizeFrom(2 * size, n)

\* The slots of the hash table of a set of n elements: a power of two, at
\* least 8, that keeps the table less than 3/5 full.
SetTableSize(n) == SetTableSizeFrom(8, n)

RECURSIVE SlotOrder(_, _)
SlotOrder(S, size) ==
    IF S = {} THEN <<>>
    ELSE LET m == CHOOSE x \in S :
                      \A y \in S : (x % size < y % size)
                                   \/ (x % size = y % size /\ x <= y)
         IN <<m>> \o SlotOrder(S \ {m}, size)

\* Mutant: the set is walked from its last slot to its first.
SetIterationOrder_Backwards(S) ==
    Reverse(SlotOrder(S, SetTableSize(Cardinality(S))))

\* Iteration over a set of product ids: an int hashes to itself and sits in
\* slot id mod table size; the table is walked slot by slot.
SetIterationOrder(S) == SlotOrder(S, SetTableSize(Cardinality(S)))

\* One combined score: collaborative_weight * collab + content_weight * content
\* (the weights in tenths).
CombinedScore(weights, collab, content) ==
    (weights.collaborative * collab + weights.content * content) \div 10

\* Mutant: only the products both scorers scored are combined.
CombineScores_Intersection(weights, collab_scores, content_scores) ==
    LET order == SetIterationOrder(DOMAIN collab_scores \cap DOMAIN content_scores)
    IN [k \in DOMAIN order |->
           [product_id |-> order[k],
            score |-> CombinedScore(weights, collab_scores[order[k]],
                                    content_scores[order[k]])]]

\* _combine_scores: the dict product_id -> combined score, as its items in
\* insertion order, which is the iteration order of the set of all ids.
CombineScores(weights, collab_scores, content_scores) ==
    LET all_product_ids == DOMAIN collab_scores \cup DOMAIN content_scores
        order == SetIterationOrder(all_product_ids)
        Get(scores, p) == IF p \in DOMAIN scores THEN scores[p] ELSE 0
    IN [k \in DOMAIN order |->
           [product_id |-> order[k],
            score |-> CombinedScore(weights, Get(collab_scores, order[k]),
                                    Get(content_scores, order[k]))]]

\* Mutant: the cap test lets one item too many through.
UnderCap_OffByOne(count, cap) == count <= cap

\* category_counts[category] < max_per_category
UnderCap(count, cap) == count < cap

RECURSIVE DiversityWalk(_, _, _)
DiversityWalk(rest, diverse_products, cap) ==
    IF rest = <<>> THEN diverse_products
    ELSE LET x == Head(rest)
             count == Cardinality(
                 {k \in DOMAIN diverse_products :
                      products[diverse_products[k].product_id].category
                      = products[x.product_id].category})
         IN IF x.product_id \in ProductIds /\ UnderCap(count, cap)
            THEN DiversityWalk(Tail(rest), Append(diverse_products, x), cap)
            ELSE DiversityWalk(Tail(rest), diverse_products, cap)

\* Mutant: the items over the cap are deferred to the end of the list
\* instead of dropped.
ApplyDiversityFilter_Deferring(sorted_products, cap) ==
    LET kept == DiversityWalk(sorted_products, <<>>, cap)
        Dropped(e) == e \notin Range(kept)
    IN kept \o SelectSeq(sorted_products, Dropped)

\* _apply_diversity_filter: one pass in order; an item is kept while fewer
\* than cap items of its category were kept before it.
ApplyDiversityFilter(sorted_products, cap) ==
    DiversityWalk(sorted_products, <<>>, cap)

\* Mutant: the exclusion is skipped.
ExcludeInteracted_Skipped(hybrid_scores, user_interactions) == hybrid_scores

\* if exclude_interacted: the items whose product is not among the
\* user's own (in-window) interactions.
ExcludeInteracted(hybrid_scores, user_interactions) ==
    LET interacted_product_ids ==
            {user_interactions[k].product_id : k \in DOMAIN user_interactions}
        Eligible(e) == e.product_id \notin interacted_product_ids
    IN SelectSeq(hybrid_scores, Eligible)

\* Mutant: the slice is taken without the sort.
SortedTopK_Unsorted(hybrid_scores, top_k) == Prefix(hybrid_scores, top_k)

\* Mutant: the slice stops one item early.
SortedTopK_OffByOne(hybrid_scores, top_k) ==
    Prefix(SortDesc(hybrid_scores), top_k - 1)

\* sorted(hybrid_scores.items(), key = score, reverse = True)[:top_k]
SortedTopK(hybrid_scores, top_k) == Prefix(SortDesc(hybrid_scores), top_k)

\* Mutant: enumerate from 0.
Rank_ZeroBased(position) == position - 1

\* enumerate(..., 1): the rank of the item at a (1-based) position.
Rank(position) == position

\* The hybrid path of get_recommendations, one step of the method per
\* operator, each step handing its value to the next.

\* The result rows: rank, tag and the two component scores of each product
\* left by the diversity filter (a row needs its product to exist).
HybridResults(collab_scores, content_scores, combined, hybrid_scores, sorted_products, diverse_products) ==
    LET Exists(rec) == rec.product_id \in ProductIds
    IN [collab_scores |-> collab_scores,
        content_scores |-> content_scores,
        combined_scores |-> combined,
        hybrid_scores |-> hybrid_scores,
        sorted_products |-> sorted_products,
        recommendations |->
            SelectSeq(
                [r \in DOMAIN diverse_products |->
                    [product_id |-> diverse_products[r].product_id,
                     score |-> diverse_products[r].score,
                     rank |-> Rank(r),
                     algorithm_used |-> "hybrid",
                     collab_score |-> collab_scores[diverse_products[r].product_id],
                     content_score |-> content_scores[diverse_products[r].product_id]]],
                Exists)]

\* diverse_products = self._apply_diversity_filter(sorted_products)
HybridDiversify(collab_scores, content_scores, combined, hybrid_scores, sorted_products) ==
    HybridResults(collab_scores, content_scores, combined, hybrid_scores,
                  sorted_products,
                  ApplyDiversityFilter(sorted_products, max_per_category))

\* sorted_products = sorted(hybrid_scores.items(), ...)[:top_k]
HybridSort(collab_scores, content_scores, combined, hybrid_scores, top_k) ==
    HybridDiversify(collab_scores, content_scores, combined, hybrid_scores,
                    SortedTopK(hybrid_scores, top_k))

\* if exclude_interacted: hybrid_scores without the interacted products
HybridExclude(user_interactions, collab_scores, content_scores, combined, top_k, exclude_interacted) ==
    HybridSort(collab_scores, content_scores, combined,
               IF exclude_interacted
               THEN ExcludeInteracted(combined, user_interactions)
               ELSE combined,
               top_k)

\* hybrid_scores = self._combine_scores(collab_scores, content_scores)
HybridCombine(user_interactions, collab_scores, content_scores, top_k, exclude_interacted, weights) ==
    HybridExclude(user_interactions, collab_scores, content_scores,
                  CombineScores(weights, collab_scores, content_scores),
                  top_k, exclude_interacted)

\* collab_scores and content_scores over all product ids
HybridScore(user_id, user_interactions, top_k, exclude_interacted, weights) ==
    HybridCombine(user_interactions,
                  CollaborativeFiltering(user_id, ProductIds),
                  ContentBasedFiltering(user_id, ProductIds, user_interactions),
                  top_k, exclude_interacted, weights)

HybridRun(user_id, top_k, exclude_interacted, weights) ==
    HybridScore(user_id, GetUserInteractions(user_id), top_k,
                exclude_interacted, weights)

\* The in-window interaction count of a product (the popularity query joins
\* products with interactions, so only products with a count appear).
InteractionCount(p) ==
    Cardinality({i \in WindowIds : interactions[i].product_id = p})

PopularCandidates_AllProducts == ProductIds

PopularCandidates == {p \in ProductIds : InteractionCount(p) > 0}

\* The orders the popularity query may return its rows in: by count,
\* descending; the query states no order among equal counts.
PopularOrders ==
    LET n == Cardinality(PopularCandidates)
    IN {f \in [1 .. n -> PopularCandidates] :
           /\ \A i, j \in 1 .. n : i # j => f[i] # f[j]
           /\ \A i \in 1 .. n - 1 :
                  InteractionCount(f[i]) >= InteractionCount(f[i + 1])}

\* Mutant: a popularity score is never below zero.
PopularityScore_Clamped(rank) ==
    IF rank >= 20 THEN 0 ELSE Scale - rank * (Scale \div 20)

\* The synthetic score of the row at a 1-based rank: 1.0 - (rank * 0.05).
PopularityScore(rank) == Scale - rank * (Scale \div 20)

\* Mutant: the fallback fills its list up to top_k rows, with product id 0
\* where the query returned no row.
GetPopularProducts_Padded(order, top_k) ==
    [r \in 1 .. top_k |->
        [product_id |-> IF r <= Len(order) THEN order[r] ELSE 0,
         score |-> PopularityScore(r),
         rank |-> Rank(r),
         algorithm_used |-> "popularity",
         collab_score |-> 0,
         content_score |-> 0]]

\* Mutant: the cold-start results carry the tag of the hybrid path.
GetPopularProducts_HybridTag(order, top_k) ==
    LET popular == Prefix(order, top_k)
    IN [r \in DOMAIN popular |->
           [product_id |-> popular[r],
            score |-> PopularityScore(r),
            rank |-> Rank(r),
            algorithm_used |-> "hybrid",
            collab_score |-> 0,
            content_score |-> 0]]

\* _get_popular_products over one such order, limited to top_k rows.
GetPopularProducts(order, top_k) ==
    LET popular == Prefix(order, top_k)
    IN [r \in DOMAIN popular |->
           [product_id |-> popular[r],
            score |-> PopularityScore(r),
            rank |-> Rank(r),
            algorithm_used |-> "popularity",
            collab_score |-> 0,
            content_score |-> 0]]

\* The rows of the interactions table no older than the lookback window, in
\* id order.
WindowRows ==
    LET Recent(row) == now - row.timestamp <= recency_days * HoursPerDay
    IN SelectSeq(interactions, Recent)

\* What an engine call can read of the store: the users, the products, the
\* clock and the in-window interactions.  Each response records it.
Seen == [users |-> users, products |-> products, now |-> now, window |-> WindowRows]

\* get_recommendations: cold start when the user has no in-window
\* interaction, else the hybrid pipeline.
GetRecommendations(user_id, top_k, exclude_interacted, weights) ==
    LET call == [kind |-> "recommendations", user_id |-> user_id, top_k |-> top_k,
                 exclude_interacted |-> exclude_interacted, weights |-> weights]
    IN /\ Idle
       /\ IF GetUserInteractions(user_id) = <<>>
          THEN \E order \in PopularOrders :
                   response' = [call |-> call, cold_start |-> TRUE,
                                seen |-> Seen,
                                run |-> [recommendations |->
                                            GetPopularProducts(order, top_k)]]
          ELSE response' = [call |-> call, cold_start |-> FALSE,
                            seen |-> Seen,
                            run |-> HybridRun(user_id, top_k, exclude_interacted,
                                              weights)]
       /\ UNCHANGED <<users, products, interactions, recommendations, now>>

RECURSIVE Distinct(_)
\* The entries of a sequence in the order of their first occurrence (the key
\* order of a Counter filled along the sequence).
Distinct(s) ==
    IF s = <<>> THEN <<>>
    ELSE LET d == Distinct(SubSeq(s, 1, Len(s) - 1))
         IN IF s[Len(s)] \in Range(d) THEN d ELSE Append(d, s[Len(s)])

\* Mutant: the first n keys in insertion order, unsorted.
MostCommon_Unsorted(counter, keys, n) ==
    Prefix([k \in DOMAIN keys |-> [key |-> keys[k], score |-> counter[keys[k]]]], n)

\* Counter.most_common(n): the keys by descending count, equal counts in
\* insertion order.
MostCommon(counter, keys, n) ==
    Prefix(SortDesc([k \in DOMAIN keys |->
                        [key |-> keys[k], score |-> counter[keys[k]]]]), n)

\* round(avg_price, 2), in hundredths.
RoundedAvgPrice(price_sum, price_count) ==
    (2 * 100 * price_sum + price_count) \div (2 * price_count)

\* get_user_insights: the number of in-window interactions, the three
\* heaviest categories and brands of the profile, the average price and the
\* five most recent purchases.
GetUserInsights(user_id) ==
    LET user_interactions == GetUserInteractions(user_id)
        profile == BuildUserProfile(user_interactions)
        Prod(k) == products[user_interactions[k].product_id]
        categories == Distinct([k \in DOMAIN user_interactions |-> Prod(k).category])
        HasBrand(b) == b # NoBrand
        brands == Distinct(SelectSeq([k \in DOMAIN user_interactions |-> Prod(k).brand],
                                     HasBrand))
        Purchase(x) == x.interaction_type = "purchase"
        purchases == SelectSeq(user_interactions, Purchase)
    IN IF user_interactions = <<>>
       THEN [total_interactions |-> 0, favorite_categories |-> <<>>,
             favorite_brands |-> <<>>, avg_price |-> 0, recent_purchases |-> <<>>]
       ELSE [total_interactions |-> Len(user_interactions),
             favorite_categories |-> MostCommon(profile.categories, categories, 3),
             favorite_brands |-> MostCommon(profile.brands, brands, 3),
             avg_price |-> RoundedAvgPrice(profile.price_sum, profile.price_count),
             recent_purchases |->
                 Prefix([k \in DOMAIN purchases |->
                            [product_id |-> purchases[k].product_id,
                             category |-> products[purchases[k].product_id].category,
                             price |-> products[purchases[k].product_id].price]], 5)]

\* Mutant: the insights call records a view of the first product.
GetUserInsightsCall_Recording(user_id) ==
    /\ Idle
    /\ user_id \in UserIds
    /\ response' = [call |-> [kind |-> "insights", user_id |-> user_id],
                    seen |-> Seen,
                    insights |-> GetUserInsights(user_id)]
    /\ interactions' = Append(interactions,
                              [user_id |-> user_id, product_id |-> 1,
                               interaction_type |-> "view", timestamp |-> now])
    /\ UNCHANGED <<users, products, recommendations, now>>

\* GET /recommendations/insights: the insights of a user.
GetUserInsightsCall(user_id) ==
    /\ Idle
    /\ user_id \in UserIds
    /\ response' = [call |-> [kind |-> "insights", user_id |-> user_id],
                    seen |-> Seen,
                    insights |-> GetUserInsights(user_id)]
    /\ UNCHANGED <<users, products, interactions, recommendations, now>>

\* The weight pairs an engine is constructed with (in tenths): the default
\* 0.6 / 0.4 and a pair that does not sum to 1.
WeightPairs ==
    {[collaborative |-> 6, content |-> 4],
     [collaborative |-> 8, content |-> 4]}

Next ==
    \/ \E e \in Range(users) \cup {Emails[Len(users) + 1]} : CreateUser(e)
    \/ \E p \in ProductInputs : CreateProduct(p)
    \/ \E r \in InteractionInputs :
           /\ Len(interactions) < MaxInteractions
           /\ CreateInteraction(r.user_id, r.product_id, r.interaction_type)
    \/ Tick
    \/ Return
    \/ \E u \in 1 .. MaxUsers, k \in 1 .. MaxTopK, ex \in BOOLEAN, w \in WeightPairs :
           GetRecommendations(u, k, ex, w)

Spec == Init /\ [][Next]_vars

-----------------------------------------------------------------------------
(* The divisions of the engine.  Each operator gives the divisors of the
   divisions the code performs on its way through one function: a division
   behind a guard that is false is not performed and has no divisor. *)

\* 1.0 + days_ago * 0.1, in tenths, of the interactions of the given ids.
RecencyDivisors(ids) == {10 + DaysAgo(i) : i \in ids}

\* magnitude1 * magnitude2, behind the tests for common products and for a
\* zero magnitude.
CosineDivisors(vector1, vector2) ==
    LET common == DOMAIN vector1 \cap DOMAIN vector2
        sq1 == [p \in DOMAIN vector1 |-> vector1[p] * vector1[p]]
        sq2 == [p \in DOMAIN vector2 |-> vector2[p] * vector2[p]]
        magnitude1 == Sqrt(SumFun(sq1, DOMAIN vector1))
        magnitude2 == Sqrt(SumFun(sq2, DOMAIN vector2))
    IN IF common = {} THEN {}
       ELSE IF magnitude1 = 0 \/ magnitude2 = 0 THEN {}
       ELSE {magnitude1 * magnitude2}

\* The cosine divisions of _find_similar_users: one per other user.
SimilarUsersDivisors(user_id, matrix) ==
    IF user_id \notin DOMAIN matrix THEN {}
    ELSE UNION {CosineDivisors(matrix[user_id], matrix[u]) :
                    u \in DOMAIN matrix \ {user_id}}

\* max_score, behind "if scores" and "if max_score > 0".
NormalizeDivisors(scores) ==
    IF DOMAIN scores = {} THEN {}
    ELSE LET max_score == MaxOfSet({scores[p] : p \in DOMAIN scores})
         IN IF max_score > 0 THEN {max_score} ELSE {}

\* Mutant: the brand share is computed for every product.
BrandDivisors_Unguarded(product, user_profile) ==
    {SumFun(user_profile.brands, DOMAIN user_profile.brands)}

\* total_brand_weight, behind "product.brand and product.brand in brands".
BrandDivisors(product, user_profile) ==
    IF product.brand # NoBrand /\ product.brand \in DOMAIN user_profile.brands
    THEN {SumFun(user_profile.brands, DOMAIN user_profile.brands)}
    ELSE {}

\* total_category_weight, behind "product.category in categories".
CategoryDivisors(product, user_profile) ==
    IF product.category \in DOMAIN user_profile.categories
    THEN {SumFun(user_profile.categories, DOMAIN user_profile.categories)}
    ELSE {}

\* avg_price and 1.0 + price_diff / avg_price, both times price_count,
\* behind "avg_price > 0".
PriceDivisors(product, user_profile) ==
    IF user_profile.price_sum > 0
    THEN {user_profile.price_sum,
          user_profile.price_sum
              + Abs(user_profile.price_count * product.price
                    - user_profile.price_sum)}
    ELSE {}

\* total_attrs, behind "product.attributes and user_profile['attributes']"
\* and "if total_attrs > 0".
AttributeDivisors(product, user_profile) ==
    LET total_attrs == Cardinality(DOMAIN user_profile.attributes)
    IN IF product.attributes # {} /\ DOMAIN user_profile.attributes # {}
       THEN IF total_attrs > 0 THEN {total_attrs} ELSE {}
       ELSE {}

\* The divisions of _calculate_product_similarity.
SimilarityDivisors(product, user_profile) ==
    CategoryDivisors(product, user_profile)
        \cup BrandDivisors(product, user_profile)
        \cup PriceDivisors(product, user_profile)
        \cup AttributeDivisors(product, user_profile)

\* The divisions of _content_based_filtering.
ContentDivisors(product_ids, user_interactions) ==
    IF user_interactions = <<>> THEN {}
    ELSE UNION {SimilarityDivisors(products[p],
                                   BuildUserProfile(user_interactions)) :
                    p \in product_ids}
             \cup NormalizeDivisors(ContentRaw(product_ids, user_interactions))

\* The divisions of _collaborative_filtering: those of the matrix it
\* builds, then those of the similarities and of the normalization.
CollabDivisors(user_id, matrix) ==
    RecencyDivisors(WindowIds)
        \cup IF user_id \notin DOMAIN matrix THEN {}
             ELSE SimilarUsersDivisors(user_id, matrix)
                      \cup NormalizeDivisors(CollabRaw(user_id, matrix))

\* The divisions of get_recommendations: those of _get_user_interactions
\* and, unless the call is a cold start, of the two scorers.
EngineDivisors(user_id, user_interactions) ==
    RecencyDivisors({i \in WindowIds : interactions[i].user_id = user_id})
        \cup IF user_interactions = <<>> THEN {}
             ELSE CollabDivisors(user_id, BuildUserProductMatrix)
                      \cup ContentDivisors(ProductIds, user_interactions)

-----------------------------------------------------------------------------
(* The store of the worked example: three users and five products, of which
   products 1 and 2 are books and product 3 is electronics; each of the
   example's four interactions is recorded once, at any time and in any
   order. *)

DefaultWeights == [collaborative |-> 6, content |-> 4]

InitE2E ==
    /\ users = SubSeq(Emails, 1, 3)
    /\ \E p3 \in {Gadget1, Gadget2}, p4 \in {Book1, Book2, Gadget1, Gadget2},
          p5 \in {Book1, Gadget2} :
           products = <<Book1, Book2, p3, p4, p5>>
    /\ interactions = <<>>
    /\ recommendations = <<>>
    /\ now = 0
    /\ response = NoResponse

Recorded(r) ==
    \E i \in DOMAIN interactions :
        /\ interactions[i].user_id = r.user_id
        /\ interactions[i].product_id = r.product_id
        /\ interactions[i].interaction_type = r.interaction_type

NextE2E ==
    \/ \E r \in InteractionInputs :
           /\ ~Recorded(r)
           /\ CreateInteraction(r.user_id, r.product_id, r.interaction_type)
    \/ Tick
    \/ Return
    \/ \E u \in 1 .. 3, k \in {2, 5}, ex \in BOOLEAN :
           GetRecommendations(u, k, ex, DefaultWeights)

SpecE2E == InitE2E /\ [][NextE2E]_vars

-----------------------------------------------------------------------------
(* The diversity filter on its own: a catalogue of MaxCatalogue products, one
   user who purchased product 1, and calls of the filter on any sequence of
   distinct products of the catalogue with any cap up to MaxCap, next to
   calls of get_recommendations. *)

InitDiversity ==
    /\ users = SubSeq(Emails, 1, 1)
    /\ products \in [1 .. MaxCatalogue -> {Book1, Gadget1}]
    /\ interactions = <<[user_id |-> 1, product_id |-> 1,
                         interaction_type |-> "purchase", timestamp |-> 0]>>
    /\ recommendations = <<>>
    /\ now = 0
    /\ response = NoResponse

\* The sequences of distinct product ids, each with a score that does not
\* grow along the sequence.
FilterInputs ==
    UNION {{[k \in 1 .. n |-> [product_id |-> f[k], score |-> Scale - k]] :
                f \in {g \in [1 .. n -> ProductIds] :
                           \A i, j \in 1 .. n : i # j => g[i] # g[j]}} :
           n \in 0 .. Len(products)}

\* One call of _apply_diversity_filter.
DiversityFilterCall(input, cap) ==
    /\ Idle
    /\ response' = [call |-> [kind |-> "diversity_filter", input |-> input,
                              cap |-> cap],
                    output |-> ApplyDiversityFilter(input, cap)]
    /\ UNCHANGED <<users, products, interactions, recommendations, now>>

NextDiversity ==
    \/ /\ Idle
       /\ \E input \in FilterInputs, cap \in 0 .. MaxCap :
              DiversityFilterCall(input, cap)
    \/ \E k \in 1 .. Len(products), ex \in BOOLEAN :
           GetRecommendations(1, k, ex, DefaultWeights)
    \/ Return

SpecDiversity == InitDiversity /\ [][NextDiversity]_vars

-----------------------------------------------------------------------------
(* The score combiner on its own: _combine_scores applied to any two score
   maps over up to MaxScoredIds product ids, which need not have the same
   keys. *)

\* The scores the maps hold: 0, 0.5, 0.8 and 1.
ScoreInputs == {0, Scale \div 2, (Scale * 8) \div 10, Scale}

ScoreMaps == UNION {[S -> ScoreInputs] : S \in SUBSET (1 .. MaxScoredIds)}

InitCombine ==
    /\ users = <<>>
    /\ products = <<>>
    /\ interactions = <<>>
    /\ recommendations = <<>>
    /\ now = 0
    /\ response = NoResponse

\* One call of _combine_scores.
CombineCall(weights, collab_scores, content_scores) ==
    /\ Idle
    /\ response' = [call |-> [kind |-> "combine_scores", weights |-> weights,
                              collab_scores |-> collab_scores,
                              content_scores |-> content_scores],
                    output |-> CombineScores(weights, collab_scores,
                                             content_scores)]
    /\ UNCHANGED <<users, products, interactions, recommendations, now>>

NextCombine ==
    \/ /\ Idle
       /\ \E w \in WeightPairs, collab_scores \in ScoreMaps,
             content_scores \in ScoreMaps :
              CombineCall(w, collab_scores, content_scores)
    \/ Return

SpecCombine == InitCombine /\ [][NextCombine]_vars

-----------------------------------------------------------------------------
(* The seeded store: seed_database.py drops the tables and fills them with
   the sample users and products and a batch of interactions, each stamped
   utcnow minus an age of up to 30 days and 23 hours, inserted in timestamp
   order.  The endpoints then add interactions, time passes, and the store
   may be seeded again. *)

SeedUsers == SubSeq(Emails, 1, 2)
SeedProducts == <<Book1, Book2, Gadget1>>

\* The ages (in hours) of seeded interactions: fresh, and half a day older
\* than the lookback window.
SeedAges == {0, recency_days * HoursPerDay + 12}

\* The batches of at most MaxSeeded interactions the generator can produce
\* now, sorted by timestamp.
SeedBatches ==
    LET rows == {[user_id |-> r.user_id, product_id |-> r.product_id,
                  interaction_type |-> r.interaction_type,
                  timestamp |-> now - a] : r \in InteractionInputs, a \in SeedAges}
    IN UNION {{b \in [1 .. n -> rows] :
                   \A i, j \in 1 .. n : i < j => b[i].timestamp <= b[j].timestamp} :
              n \in 0 .. MaxSeeded}

InitSeed ==
    /\ users = SeedUsers
    /\ products = SeedProducts
    /\ interactions = <<>>
    /\ recommendations = <<>>
    /\ now = 0
    /\ response = NoResponse

\* seed_database.main: drop_db, init_db, seed_products, seed_users,
\* seed_interactions.  The script is a process of its own: it does not wait
\* for a response in flight.
SeedDatabase(batch) ==
    /\ users' = SeedUsers
    /\ products' = SeedProducts
    /\ interactions' = batch
    /\ recommendations' = <<>>
    /\ UNCHANGED <<now, response>>

NextSeed ==
    \/ \E batch \in SeedBatches : SeedDatabase(batch)
    \/ \E r \in InteractionInputs :
           /\ Len(interactions) < MaxSeeded
           /\ CreateInteraction(r.user_id, r.product_id, r.interaction_type)
    \/ Tick
    \/ Return
    \/ \E u \in 1 .. MaxUsers, k \in 1 .. MaxTopK, ex \in BOOLEAN :
           GetRecommendations(u, k, ex, DefaultWeights)
    \/ \E u \in 1 .. MaxUsers : GetUserInsightsCall(u)

SpecSeed == InitSeed /\ [][NextSeed]_vars

-----------------------------------------------------------------------------
(* The scorers on their own: over the seeded users and products and the
   interactions the endpoints add, _collaborative_filtering is called for
   any user id (also one of no user) and any list of candidate product ids
   (also ids of no product). *)

CandidateSets == SUBSET (1 .. Len(SeedProducts) + 1)

\* One call of _collaborative_filtering.
CollaborativeFilteringCall(user_id, product_ids) ==
    /\ Idle
    /\ response' = [call |-> [kind |-> "collaborative_filtering",
                              user_id |-> user_id, product_ids |-> product_ids],
                    output |-> CollaborativeFiltering(user_id, product_ids)]
    /\ UNCHANGED <<users, products, interactions, recommendations, now>>

NextScorers ==
    \/ \E r \in InteractionInputs :
           /\ Len(interactions) < MaxInteractions
           /\ CreateInteraction(r.user_id, r.product_id, r.interaction_type)
    \/ Tick
    \/ Return
    \/ \E u \in 1 .. Len(SeedUsers) + 1, product_ids \in CandidateSets :
           CollaborativeFilteringCall(u, product_ids)

SpecScorers == InitSeed /\ [][NextScorers]_vars

-----------------------------------------------------------------------------
(* The popularity fallback on its own: _get_popular_products applied to the
   rows its query returns, up to MaxRows of them, for any limit up to
   MaxLimit (the request schema admits limits up to 50). *)

\* The rows of the popularity query: distinct product ids, in either order.
PopularRowInputs ==
    {[r \in 1 .. n |-> r] : n \in 0 .. MaxRows}
        \cup {[r \in 1 .. n |-> n + 1 - r] : n \in 0 .. MaxRows}

GetPopularProductsCall(order, top_k) ==
    /\ Idle
    /\ response' = [call |-> [kind |-> "popular_products", rows |-> order,
                              top_k |-> top_k],
                    output |-> GetPopularProducts(order, top_k)]
    /\ UNCHANGED <<users, products, interactions, recommendations, now>>

NextPopular ==
    \/ /\ Idle
       /\ \E order \in PopularRowInputs, top_k \in 1 .. MaxLimit :
              GetPopularProductsCall(order, top_k)
    \/ Return

SpecPopular == InitCombine /\ [][NextPopular]_vars

-----------------------------------------------------------------------------
(* The insights on their own: a store of two users and four products of four
   categories and four brands, in which the first user interacts up to
   MaxInsightRows times and get_user_insights is called for either user. *)

InsightProducts ==
    <<[category |-> "Books", brand |-> "Acme", price |-> 10,
       attributes |-> {}, rating |-> 4],
      [category |-> "Electronics", brand |-> "Bolt", price |-> 30,
       attributes |-> {}, rating |-> 3],
      [category |-> "Garden", brand |-> "Cedar", price |-> 20,
       attributes |-> {}, rating |-> 5],
      [category |-> "Toys", brand |-> "Dino", price |-> 40,
       attributes |-> {}, rating |-> 4]>>

\* The interaction requests of the first user: a purchase of each of three
\* products and a view of the fourth.
InsightInputs ==
    {[user_id |-> 1, product_id |-> 1, interaction_type |-> "purchase"],
     [user_id |-> 1, product_id |-> 2, interaction_type |-> "purchase"],
     [user_id |-> 1, product_id |-> 3, interaction_type |-> "purchase"],
     [user_id |-> 1, product_id |-> 4, interaction_type |-> "view"]}

InitInsights ==
    /\ users = SubSeq(Emails, 1, 2)
    /\ products = InsightProducts
    /\ interactions = <<>>
    /\ recommendations = <<>>
    /\ now = 0
    /\ response = NoResponse

NextInsights ==
    \/ \E r \in InsightInputs :
           /\ Len(interactions) < MaxInsightRows
           /\ CreateInteraction(r.user_id, r.product_id, r.interaction_type)
    \/ Tick
    \/ Return
    \/ \E u \in UserIds : GetUserInsightsCall(u)

SpecInsights == InitInsights /\ [][NextInsights]_vars

-----------------------------------------------------------------------------
(* Repeated calls: over the seeded users and products, a caller that holds
   the response of an engine call lets the clock run and issues the same
   call again.  The second response records the first one as `previous`. *)

\* The clock advances while a response is held.
Elapse ==
    /\ ~Idle
    /\ \E t \in TimePoints : t > now /\ now' = t
    /\ UNCHANGED <<users, products, interactions, recommendations, response>>

\* What a response keeps of the response before it.
Previous(r) == [seen |-> r.seen, cold_start |-> r.cold_start, run |-> r.run]

\* get_recommendations, called again with the arguments of the response held.
GetRecommendationsAgain ==
    /\ response.call.kind = "recommendations"
    /\ IF GetUserInteractions(response.call.user_id) = <<>>
       THEN \E order \in PopularOrders :
                response' = [call |-> response.call, cold_start |-> TRUE,
                             seen |-> Seen,
                             run |-> [recommendations |->
                                         GetPopularProducts(order, response.call.top_k)],
                             previous |-> Previous(response)]
       ELSE response' = [call |-> response.call, cold_start |-> FALSE,
                         seen |-> Seen,
                         run |-> HybridRun(response.call.user_id, response.call.top_k,
                                           response.call.exclude_interacted,
                                           response.call.weights),
                         previous |-> Previous(response)]
    /\ UNCHANGED <<users, products, interactions, recommendations, now>>

\* get_user_insights, called again for the user of the response held.
GetUserInsightsAgain ==
    /\ response.call.kind = "insights"
    /\ response' = [call |-> response.call, seen |-> Seen,
                    insights |-> GetUserInsights(response.call.user_id),
                    previous |-> [seen |-> response.seen,
                                  insights |-> response.insights]]
    /\ UNCHANGED <<users, products, interactions, recommendations, now>>

NextRepeat ==
    \/ \E r \in InteractionInputs :
           /\ Len(interactions) < MaxSeeded
           /\ CreateInteraction(r.user_id, r.product_id, r.interaction_type)
    \/ Tick
    \/ Elapse
    \/ Return
    \/ \E u \in 1 .. MaxUsers, k \in 1 .. MaxTopK, ex \in BOOLEAN :
           GetRecommendations(u, k, ex, DefaultWeights)
    \/ \E u \in 1 .. MaxUsers : GetUserInsightsCall(u)
    \/ GetRecommendationsAgain
    \/ GetUserInsightsAgain

SpecRepeat == InitSeed /\ [][NextRepeat]_vars

-----------------------------------------------------------------------------
(* The recommendation endpoints: POST /recommendations/generate scores,
   explains and stores; GET /recommendations/{user_id} reads the stored rows.
   The explanation collaborator answers each request with a text, with a
   text shorter than 20 characters, or by raising; a database access of the
   endpoint may fail. *)

LLMOutcomes == {"text", "short", "raises"}

\* Where a request of the endpoint can meet a database error: in the queries
\* of the engine, in the commit, in the refresh after the commit.
Faults == {"none", "query", "commit", "refresh"}

NoExplanation == [kind |-> "none", sentence |-> "", reasons |-> <<>>]

\* _generate_fallback_explanation: up to two of the reasons category, brand,
\* rating and price, in this order, or the sentence without a reason.
FallbackReasons(product, user_insights) ==
    (IF /\ user_insights.favorite_categories # <<>>
        /\ product.category = user_insights.favorite_categories[1].key
     THEN <<"category">> ELSE <<>>)
    \o (IF product.brand \in {user_insights.favorite_brands[i].key :
                                i \in DOMAIN user_insights.favorite_brands}
        THEN <<"brand">> ELSE <<>>)
    \o (IF 2 * product.rating >= 9 THEN <<"rating">> ELSE <<>>)
    \o (IF /\ user_insights.avg_price > 0
           /\ 10 * Abs(100 * product.price - user_insights.avg_price)
                  < 3 * user_insights.avg_price
        THEN <<"price">> ELSE <<>>)

GenerateFallbackExplanation(product, user_insights) ==
    IF FallbackReasons(product, user_insights) # <<>>
    THEN [kind |-> "fallback", sentence |-> "is recommended because it",
          reasons |-> Prefix(FallbackReasons(product, user_insights), 2)]
    ELSE [kind |-> "fallback", sentence |-> "is a highly-rated product",
          reasons |-> <<>>]

\* Mutant: an error of the text generation is raised again.
GenerateExplanation_Raising(product, user_insights, outcome) ==
    IF outcome = "text" THEN [kind |-> "llm", sentence |-> "generated", reasons |-> <<>>]
    ELSE IF outcome = "raises" THEN [kind |-> "error", sentence |-> "", reasons |-> <<>>]
    ELSE GenerateFallbackExplanation(product, user_insights)

\* generate_explanation: the generated text, or the fallback when the
\* generation raises or its text has fewer than 20 characters.
GenerateExplanation(product, user_insights, outcome) ==
    IF outcome = "text" THEN [kind |-> "llm", sentence |-> "generated", reasons |-> <<>>]
    ELSE GenerateFallbackExplanation(product, user_insights)

\* batch_generate_explanations, when requested: an explanation per
\* recommendation.
Explanations(recs, user_insights, include_explanation, llm) ==
    [r \in DOMAIN recs |->
        IF include_explanation
        THEN GenerateExplanation(products[recs[r].product_id], user_insights, llm[r])
        ELSE NoExplanation]

\* The number of the requests that stored a row so far.
StoredRequests ==
    IF recommendations = <<>> THEN 0 ELSE recommendations[Len(recommendations)].request

\* The rows of one request: one per recommendation, in rank order.  The
\* creation times of the rows grow with their ids.
NewRows(user_id, recs, explanations) ==
    [r \in DOMAIN recs |->
        [user_id |-> user_id,
         product_id |-> recs[r].product_id,
         score |-> recs[r].score,
         algorithm_used |-> recs[r].algorithm_used,
         explanation |-> explanations[r],
         rank |-> recs[r].rank,
         created_at |-> now,
         request |-> StoredRequests + 1]]

\* The lists get_recommendations can return under the configured weights.
EngineOutcomes(user_id, top_k, exclude_interacted) ==
    IF GetUserInteractions(user_id) = <<>>
    THEN {GetPopularProducts(order, top_k) : order \in PopularOrders}
    ELSE {HybridRun(user_id, top_k, exclude_interacted, DefaultWeights).recommendations}

\* get_recommendations(user_id, limit, exclude_interacted = True), as the
\* endpoint calls it.
EngineLists(user_id, limit) == EngineOutcomes(user_id, limit, TRUE)

\* An explanation that raised ends the request like any other exception.
Raised(rows) == \E r \in DOMAIN rows : rows[r].explanation.kind = "error"

\* Mutant: the rows are added and committed one by one, so an error of the
\* commit leaves the rows before it.
StoreAndAnswer_RowByRow(call, recs, rows) ==
    IF Raised(rows)
    THEN /\ response' = [call |-> call, status |-> 500, seen |-> Seen,
                         engine |-> recs, rows |-> <<>>]
         /\ UNCHANGED recommendations
    ELSE IF call.fault = "commit"
    THEN /\ response' = [call |-> call, status |-> 500, seen |-> Seen,
                         engine |-> recs, rows |-> <<>>]
         /\ recommendations' = recommendations \o Prefix(rows, 1)
    ELSE IF call.fault = "refresh"
    THEN /\ response' = [call |-> call, status |-> 500, seen |-> Seen,
                         engine |-> recs, rows |-> <<>>]
         /\ recommendations' = recommendations \o rows
    ELSE /\ response' = [call |-> call, status |-> 200, seen |-> Seen,
                         engine |-> recs, rows |-> rows]
         /\ recommendations' = recommendations \o rows

\* The tail of generate_recommendations: add the rows, commit, refresh them
\* and answer; any exception rolls back and answers 500.
StoreAndAnswer(call, recs, rows) ==
    IF Raised(rows) \/ call.fault = "commit"
    THEN /\ response' = [call |-> call, status |-> 500, seen |-> Seen,
                         engine |-> recs, rows |-> <<>>]
         /\ UNCHANGED recommendations
    ELSE IF call.fault = "refresh"
    THEN /\ response' = [call |-> call, status |-> 500, seen |-> Seen,
                         engine |-> recs, rows |-> <<>>]
         /\ recommendations' = recommendations \o rows
    ELSE /\ response' = [call |-> call, status |-> 200, seen |-> Seen,
                         engine |-> recs, rows |-> rows]
         /\ recommendations' = recommendations \o rows

\* The body of generate_recommendations for an existing user.
ScoreExplainStore(call, recs, user_insights) ==
    StoreAndAnswer(call, recs,
                   NewRows(call.user_id, recs,
                           Explanations(recs, user_insights,
                                        call.include_explanation, call.llm)))

\* POST /recommendations/generate
GenerateRecommendations(user_id, limit, include_explanation, llm, fault) ==
    LET call == [kind |-> "generate", user_id |-> user_id, limit |-> limit,
                 include_explanation |-> include_explanation, llm |-> llm,
                 fault |-> fault]
    IN /\ Idle
       /\ IF user_id \notin UserIds
          THEN /\ response' = [call |-> call, status |-> 404, seen |-> Seen,
                               engine |-> <<>>, rows |-> <<>>]
               /\ UNCHANGED recommendations
          ELSE IF fault = "query"
          THEN /\ response' = [call |-> call, status |-> 500, seen |-> Seen,
                               engine |-> <<>>, rows |-> <<>>]
               /\ UNCHANGED recommendations
          ELSE \E recs \in EngineLists(user_id, limit) :
                   ScoreExplainStore(call, recs, GetUserInsights(user_id))
       /\ UNCHANGED <<users, products, interactions, now>>

\* Mutant: the rows are read by creation time, ascending.
StoredRowsOf_OldestFirst(user_id) ==
    LET Mine(row) == row.user_id = user_id
    IN SelectSeq(recommendations, Mine)

\* The stored rows of a user, latest first.
StoredRowsOf(user_id) ==
    LET Mine(row) == row.user_id = user_id
    IN Reverse(SelectSeq(recommendations, Mine))

\* GET /recommendations/{user_id}: the user's rows by creation time,
\* descending, limited; 404 for an unknown user or a user without rows.
GetUserRecommendations(user_id, limit) ==
    /\ Idle
    /\ response' = [call |-> [kind |-> "stored", user_id |-> user_id, limit |-> limit],
                    status |-> IF user_id \notin UserIds \/ StoredRowsOf(user_id) = <<>>
                               THEN 404 ELSE 200,
                    rows |-> IF user_id \notin UserIds THEN <<>>
                             ELSE Prefix(StoredRowsOf(user_id), limit)]
    /\ UNCHANGED <<users, products, interactions, recommendations, now>>

NextApi ==
    \/ \E r \in InteractionInputs :
           /\ Len(interactions) < MaxSeeded
           /\ CreateInteraction(r.user_id, r.product_id, r.interaction_type)
    \/ Return
    \/ \E u \in 1 .. Len(SeedUsers) + 1, limit \in 1 .. MaxTopK,
          include_explanation \in BOOLEAN, fault \in Faults :
           \E llm \in [1 .. limit -> LLMOutcomes] :
               /\ Len(recommendations) < MaxStored
               /\ include_explanation \/ llm = [r \in 1 .. limit |-> "text"]
               /\ GenerateRecommendations(u, limit, include_explanation, llm, fault)
    \/ \E u \in 1 .. Len(SeedUsers) + 1, limit \in 1 .. MaxStored + 1 :
           GetUserRecommendations(u, limit)

SpecApi == InitSeed /\ [][NextApi]_vars

-----------------------------------------------------------------------------
(* One invocation of get_recommendations in two steps, as its queries run:
   first _get_user_interactions, later the queries of the popularity
   fallback or of the scorers.  create_interaction of another request may
   commit in between: no query of the engine runs in a transaction that
   fixes a snapshot. *)

\* get_recommendations up to the cold-start test: the user's interactions
\* are read.  The record also keeps what the whole pipeline returns on the
\* store of this moment.
BeginRecommendations(user_id, top_k, exclude_interacted) ==
    /\ Idle
    /\ response' = [call |-> [kind |-> "running", user_id |-> user_id, top_k |-> top_k,
                              exclude_interacted |-> exclude_interacted,
                              weights |-> DefaultWeights],
                    user_interactions |-> GetUserInteractions(user_id),
                    overlapped |-> FALSE,
                    at_start |-> EngineOutcomes(user_id, top_k, exclude_interacted)]
    /\ UNCHANGED <<users, products, interactions, recommendations, now>>

\* create_interaction of another request commits while the invocation runs.
CommitInteraction(user_id, product_id, interaction_type) ==
    /\ response.call.kind = "running"
    /\ ~response.overlapped
    /\ user_id \in UserIds
    /\ product_id \in ProductIds
    /\ interactions' = Append(interactions,
            [user_id |-> user_id, product_id |-> product_id,
             interaction_type |-> interaction_type, timestamp |-> now])
    /\ response' = [response EXCEPT !.overlapped = TRUE]
    /\ UNCHANGED <<users, products, recommendations, now>>

\* The rest of get_recommendations, on the store of this later moment: the
\* popularity query when the interactions read were none, else the scorers
\* (which build the matrix anew), the exclusion and the ranking.
FinishRecommendations ==
    /\ response.call.kind = "running"
    /\ IF response.user_interactions = <<>>
       THEN \E order \in PopularOrders :
                response' = [call |-> [response.call EXCEPT !.kind = "recommendations"],
                             cold_start |-> TRUE,
                             seen |-> Seen,
                             overlapped |-> response.overlapped,
                             at_start |-> response.at_start,
                             run |-> [recommendations |->
                                         GetPopularProducts(order, response.call.top_k)]]
       ELSE response' = [call |-> [response.call EXCEPT !.kind = "recommendations"],
                         cold_start |-> FALSE,
                         seen |-> Seen,
                         overlapped |-> response.overlapped,
                         at_start |-> response.at_start,
                         run |-> HybridScore(response.call.user_id,
                                             response.user_interactions,
                                             response.call.top_k,
                                             response.call.exclude_interacted,
                                             response.call.weights)]
    /\ UNCHANGED <<users, products, interactions, recommendations, now>>

NextStages ==
    \/ \E r \in InteractionInputs :
           /\ Len(interactions) < MaxSeeded
           /\ CreateInteraction(r.user_id, r.product_id, r.interaction_type)
    \/ \E r \in InteractionInputs :
           /\ Len(interactions) < MaxInteractions
           /\ CommitInteraction(r.user_id, r.product_id, r.interaction_type)
    \/ \E u \in 1 .. MaxUsers, k \in 1 .. MaxTopK, ex \in BOOLEAN :
           BeginRecommendations(u, k, ex)
    \/ FinishRecommendations
    \/ Return

SpecStages == InitSeed /\ [][NextStages]_vars

-----------------------------------------------------------------------------
(* Properties *)

IsRecommendation == response # NoResponse /\ response.call.kind = "recommendations"
IsFilterCall == response # NoResponse /\ response.call.kind = "diversity_filter"
Call == response.call
Recs == response.run.recommendations
IsHybrid == IsRecommendation /\ ~response.cold_start
IsColdStart == IsRecommendation /\ response.cold_start

\* The products of the in-window interactions of a user.
InteractedInWindow(u) ==
    {interactions[i].product_id :
         i \in {j \in WindowIds : interactions[j].user_id = u}}

RecProducts == {Recs[r].product_id : r \in DOMAIN Recs}

\* C1: with exclude_interacted, get_recommendations returns no product of
\* the target user's own in-window interactions.
C1_ExcludesInteracted ==
    (IsRecommendation /\ Call.exclude_interacted)
        => RecProducts \cap InteractedInWindow(Call.user_id) = {}

C1_Witness ==
    /\ IsHybrid
    /\ Call.exclude_interacted
    /\ Recs # <<>>
    /\ InteractedInWindow(Call.user_id) # {}

\* C2: a user with no in-window interaction gets results tagged
\* "popularity" only, with collaborative and content scores 0.
C2_ColdStartIsPopularity ==
    (IsRecommendation /\ InteractedInWindow(Call.user_id) = {})
        => \A r \in DOMAIN Recs :
               /\ Recs[r].algorithm_used = "popularity"
               /\ Recs[r].collab_score = 0
               /\ Recs[r].content_score = 0

C2_Witness ==
    /\ IsRecommendation
    /\ InteractedInWindow(Call.user_id) = {}
    /\ Recs # <<>>
    /\ \E i \in DOMAIN interactions : interactions[i].user_id = Call.user_id

\* C3: a user with an in-window interaction and a product outside them gets,
\* for top_k >= 1 with exclude_interacted, a non-empty list tagged "hybrid".
C3_HybridNonEmpty ==
    (/\ IsRecommendation
     /\ InteractedInWindow(Call.user_id) # {}
     /\ ProductIds \ InteractedInWindow(Call.user_id) # {}
     /\ Call.top_k >= 1
     /\ Call.exclude_interacted)
        => /\ Recs # <<>>
           /\ \A r \in DOMAIN Recs : Recs[r].algorithm_used = "hybrid"

C3_Witness ==
    /\ IsRecommendation
    /\ InteractedInWindow(Call.user_id) # {}
    /\ ProductIds \ InteractedInWindow(Call.user_id) # {}
    /\ Call.exclude_interacted
    /\ Len(Recs) >= 2

\* C4: the rank fields of a returned list of n results are 1, 2, ..., n in
\* output order, on the hybrid and on the popularity path.
C4_RanksContiguous ==
    IsRecommendation => \A r \in DOMAIN Recs : Recs[r].rank = r

C4_Witness ==
    /\ IsHybrid
    /\ Len(Recs) >= 2

\* C5: products of equal combined score are ordered by product_id, in the
\* returned list and at the top_k cut (of two tied products the one that
\* is cut has the larger id).
C5_TiesByProductId ==
    IsHybrid =>
        LET sorted == response.run.sorted_products
            hybrid == response.run.hybrid_scores
            kept == {sorted[k].product_id : k \in DOMAIN sorted}
        IN /\ \A i, j \in DOMAIN sorted :
                  (i < j /\ sorted[i].score = sorted[j].score)
                      => sorted[i].product_id < sorted[j].product_id
           /\ \A i, j \in DOMAIN Recs :
                  (i < j /\ Recs[i].score = Recs[j].score)
                      => Recs[i].product_id < Recs[j].product_id
           /\ \A k \in DOMAIN sorted, h \in DOMAIN hybrid :
                  (hybrid[h].product_id \notin kept
                   /\ hybrid[h].score = sorted[k].score)
                      => sorted[k].product_id < hybrid[h].product_id

C5_Witness ==
    /\ IsHybrid
    /\ Recs # <<>>
    /\ LET sorted == response.run.sorted_products
           hybrid == response.run.hybrid_scores
           kept == {sorted[k].product_id : k \in DOMAIN sorted}
       IN \E h \in DOMAIN hybrid :
              /\ hybrid[h].product_id \notin kept
              /\ hybrid[h].score = Recs[Len(Recs)].score

CategoryOf(p) == products[p].category

\* The number of items of a category in a sequence of scored products.
CategoryCount(s, c) ==
    Cardinality({k \in DOMAIN s : CategoryOf(s[k].product_id) = c})

Categories == {CategoryOf(p) : p \in ProductIds}

\* C6: the output of the diversity filter holds at most cap items of any one
\* category, and a hybrid result list at most max_per_category (3).
C6_CategoryCap ==
    /\ IsFilterCall =>
           \A c \in Categories : CategoryCount(response.output, c) <= Call.cap
    /\ IsHybrid =>
           \A c \in Categories : CategoryCount(Recs, c) <= max_per_category

C6_Witness ==
    /\ IsHybrid
    /\ \E c \in Categories :
           /\ CategoryCount(Recs, c) = max_per_category
           /\ CategoryCount(response.run.sorted_products, c) > max_per_category

\* The items of s at the positions K, in order.
SubSeqAt(s, K) ==
    LET ord == SetToSeqAsc(K) IN [k \in DOMAIN ord |-> s[ord[k]]]

\* K holds exactly the positions the greedy pass keeps: position i is kept
\* iff fewer than cap kept positions before i have its category.
GreedyKept(s, K, cap) ==
    \A i \in DOMAIN s :
        i \in K <=>
            Cardinality({j \in K : j < i /\ CategoryOf(s[j].product_id)
                                              = CategoryOf(s[i].product_id)}) < cap

\* C7: the output of the diversity filter is the subsequence of its input at
\* the positions a greedy single pass keeps: an item is dropped iff cap
\* earlier items of its category were kept.
C7_GreedySubsequence ==
    IsFilterCall =>
        \E K \in SUBSET DOMAIN Call.input :
            /\ GreedyKept(Call.input, K, Call.cap)
            /\ response.output = SubSeqAt(Call.input, K)

C7_Witness ==
    /\ IsFilterCall
    /\ Call.cap = 1
    /\ Len(Call.input) = 4
    /\ Len(response.output) = 2
    /\ response.output[2] = Call.input[4]

\* The call of the worked example: recommendations for user 1 (A) with
\* top_k = 2, exclude_interacted and the weights 0.6 / 0.4.
ExampleCall ==
    /\ IsRecommendation
    /\ Call.user_id = 1
    /\ Call.top_k = 2
    /\ Call.exclude_interacted
    /\ Call.weights = DefaultWeights

\* The four interactions of the worked example are stored.
ExampleRecorded == \A r \in InteractionInputs : Recorded(r)

\* The products neither user 1 (A) nor user 2 (B) has an interaction with.
Untouched ==
    ProductIds \ {interactions[i].product_id :
                      i \in {j \in DOMAIN interactions :
                                 interactions[j].user_id \in {1, 2}}}

\* Product 3 is ranked above every returned product of Untouched.
Product3AboveUntouched ==
    \A t \in DOMAIN Recs :
        Recs[t].product_id \in Untouched
            => \E r \in DOMAIN Recs : Recs[r].product_id = 3 /\ r < t

\* C8 as stated: in any store holding the example's four interactions, the
\* example's call ranks product 3 above every product neither A nor B
\* touched.
C8_AsStated == (ExampleCall /\ ExampleRecorded) => Product3AboveUntouched

\* C8 (amended): when the example's four interactions all lie inside the
\* lookback window and are the only ones there, the example's call returns
\* product 3 and ranks it above every product neither A nor B touched.
C8_InWindowExample ==
    (/\ ExampleCall
     /\ ExampleRecorded
     /\ \A i \in WindowIds :
            [user_id |-> interactions[i].user_id,
             product_id |-> interactions[i].product_id,
             interaction_type |-> interactions[i].interaction_type]
                \in InteractionInputs
     /\ \A r \in InteractionInputs :
            \E i \in WindowIds :
                /\ interactions[i].user_id = r.user_id
                /\ interactions[i].product_id = r.product_id
                /\ interactions[i].interaction_type = r.interaction_type)
        => /\ 3 \in RecProducts
           /\ Product3AboveUntouched

C8_Witness ==
    /\ ExampleCall
    /\ ExampleRecorded
    /\ WindowIds = DOMAIN interactions
    /\ now > 0
    /\ Len(Recs) = 2
    /\ Recs[1].product_id = 3
    /\ Recs[2].product_id \in Untouched
    /\ Recs[2].content_score > Recs[1].content_score

ScoreRange == 0 .. Scale

\* C9: every collaborative and content score of an invocation lies in
\* [0, 1], and so does every combined score when the two weights are
\* non-negative and sum to 1.
C9_ScoresInUnitInterval ==
    IsHybrid =>
        LET run == response.run
        IN /\ \A p \in DOMAIN run.collab_scores :
                  run.collab_scores[p] \in ScoreRange
           /\ \A p \in DOMAIN run.content_scores :
                  run.content_scores[p] \in ScoreRange
           /\ (/\ Call.weights.collaborative >= 0
               /\ Call.weights.content >= 0
               /\ Call.weights.collaborative + Call.weights.content = 10)
                  => \A k \in DOMAIN run.combined_scores :
                         run.combined_scores[k].score \in ScoreRange

C9_Witness ==
    /\ IsHybrid
    /\ Call.weights.collaborative + Call.weights.content = 10
    /\ \E p \in DOMAIN response.run.collab_scores :
           /\ response.run.collab_scores[p] > 0
           /\ response.run.content_scores[p] > 0
           /\ response.run.content_scores[p] < Scale

\* A batch of normalized scores against its raw scores: the maximum is
\* exactly 1 unless every raw score is 0, and then every score is 0.
MaxIsOne(scores, raw) ==
    IF \A p \in DOMAIN raw : raw[p] = 0
    THEN \A p \in DOMAIN scores : scores[p] = 0
    ELSE /\ \E p \in DOMAIN scores : scores[p] = Scale
         /\ \A p \in DOMAIN scores : scores[p] <= Scale

\* C10: in each non-empty batch of the collaborative and of the content
\* scorer the maximum score is exactly 1, unless every raw score of the
\* batch is 0, and then every score of the batch is 0.
C10_BatchMaximumIsOne ==
    IsHybrid =>
        LET run == response.run
            user_interactions == GetUserInteractions(Call.user_id)
        IN /\ MaxIsOne(run.collab_scores,
                       CollabRaw(Call.user_id, BuildUserProductMatrix))
           /\ MaxIsOne(run.content_scores,
                       ContentRaw(ProductIds, user_interactions))

C10_Witness ==
    /\ IsHybrid
    /\ \E p \in DOMAIN response.run.collab_scores :
           response.run.collab_scores[p] = Scale
    /\ \E p \in DOMAIN response.run.content_scores :
           /\ response.run.content_scores[p] > 0
           /\ response.run.content_scores[p] < Scale

IsCombineCall == response # NoResponse /\ response.call.kind = "combine_scores"

\* The score of a product in a score map, 0 when the map does not hold it.
ScoreOrZero(scores, p) == IF p \in DOMAIN scores THEN scores[p] ELSE 0

\* C11: the combiner returns one score for every product id of the union of
\* the two score maps, collaborative_weight x collaborative score +
\* content_weight x content score, a missing score counting as 0; weights
\* 0.6 / 0.4 and scores 0.8 / 0.5 give 0.68.
C11_CombinerOverUnion ==
    IsCombineCall =>
        LET out == response.output
            w == Call.weights
        IN /\ {out[k].product_id : k \in DOMAIN out}
                  = DOMAIN Call.collab_scores \cup DOMAIN Call.content_scores
           /\ \A i, j \in DOMAIN out :
                  out[i].product_id = out[j].product_id => i = j
           /\ \A k \in DOMAIN out :
                  out[k].score * 10
                      = w.collaborative * ScoreOrZero(Call.collab_scores, out[k].product_id)
                        + w.content * ScoreOrZero(Call.content_scores, out[k].product_id)
           /\ \A k \in DOMAIN out :
                  (/\ w = DefaultWeights
                   /\ ScoreOrZero(Call.collab_scores, out[k].product_id) = (Scale * 8) \div 10
                   /\ ScoreOrZero(Call.content_scores, out[k].product_id) = Scale \div 2)
                      => out[k].score = (Scale * 68) \div 100

C11_Witness ==
    /\ IsCombineCall
    /\ Call.weights = DefaultWeights
    /\ DOMAIN Call.collab_scores = {1}
    /\ DOMAIN Call.content_scores = {1, 2}
    /\ Call.collab_scores[1] = (Scale * 8) \div 10
    /\ Call.content_scores[1] = Scale \div 2
    /\ Call.content_scores[2] = Scale
    /\ Len(response.output) = 2
    /\ response.output[1].score = (Scale * 68) \div 100
    /\ response.output[2].score = (Scale * 4) \div 10

IsInsights == response # NoResponse /\ response.call.kind = "insights"

\* The lists get_recommendations can return in the current store.
RecommendationOutcomes(user_id, top_k, exclude_interacted, weights) ==
    IF GetUserInteractions(user_id) = <<>>
    THEN {GetPopularProducts(order, top_k) : order \in PopularOrders}
    ELSE {HybridRun(user_id, top_k, exclude_interacted, weights).recommendations}

\* C12: interactions older than the lookback window are ignored entirely:
\* while the users, the products, the clock and the in-window interactions
\* are what a call saw, whatever older interactions were added or removed
\* since, the call's result is still a result of the same call on the
\* current store, for get_recommendations and for get_user_insights.
C12_OldInteractionsIgnored ==
    /\ (IsRecommendation /\ response.seen = Seen)
           => Recs \in RecommendationOutcomes(Call.user_id, Call.top_k,
                                              Call.exclude_interacted, Call.weights)
    /\ (IsInsights /\ response.seen = Seen)
           => response.insights = GetUserInsights(Call.user_id)

C12_Witness ==
    /\ IsHybrid
    /\ response.seen = Seen
    /\ Call.exclude_interacted
    /\ \E i \in DOMAIN interactions \ WindowIds :
           /\ interactions[i].user_id = Call.user_id
           /\ interactions[i].product_id \in RecProducts

\* The weighted interactions the aggregator returns, over all users.
WeightedInteractions == UNION {Range(GetUserInteractions(u)) : u \in UserIds}

\* The age of a weighted interaction in whole days.
AgeInDays(x) == (now - x.timestamp) \div HoursPerDay

\* C13 as stated: of two in-window interactions of the same kind the older
\* one always receives a strictly smaller weight.
C13_AsStated ==
    \A a, b \in WeightedInteractions :
        (a.interaction_type = b.interaction_type /\ a.timestamp < b.timestamp)
            => a.weight < b.weight

\* C13 (amended): for a fixed kind the weight is strictly decreasing in the
\* age counted in whole days: of two in-window interactions of the same kind
\* the one more whole days old receives a strictly smaller weight, two of
\* the same whole-day age receive the same weight, an older one never a
\* larger weight, and weight(0 days) > weight(10 days) > weight(30 days).
C13_DecayByWholeDays ==
    /\ \A a, b \in WeightedInteractions :
           a.interaction_type = b.interaction_type =>
               /\ AgeInDays(a) > AgeInDays(b) => a.weight < b.weight
               /\ AgeInDays(a) = AgeInDays(b) => a.weight = b.weight
               /\ a.timestamp < b.timestamp => a.weight <= b.weight
    /\ \A kind \in InteractionTypes :
           /\ Weight(kind, 0) > Weight(kind, 10)
           /\ Weight(kind, 10) > Weight(kind, 30)
           /\ \A d \in 0 .. recency_days - 1 : Weight(kind, d) > Weight(kind, d + 1)

C13_Witness ==
    \E a, b \in WeightedInteractions :
        /\ a.interaction_type = b.interaction_type
        /\ AgeInDays(a) = recency_days
        /\ AgeInDays(b) = 0
        /\ a.weight < b.weight

IsCollabCall ==
    response # NoResponse /\ response.call.kind = "collaborative_filtering"

\* C14: the collaborative scorer returns an entry for every candidate
\* product id, and for a target user without an in-window interaction every
\* entry is 0.
C14_CollabCoversCandidates ==
    IsCollabCall =>
        /\ DOMAIN response.output = Call.product_ids
        /\ InteractedInWindow(Call.user_id) = {}
               => \A p \in Call.product_ids : response.output[p] = 0

C14_Witness ==
    /\ IsCollabCall
    /\ InteractedInWindow(Call.user_id) = {}
    /\ Call.user_id \in UserIds
    /\ \E i \in DOMAIN interactions : interactions[i].user_id = Call.user_id
    /\ WindowIds # {}
    /\ Cardinality(Call.product_ids) > Len(products)

\* The users other than u that share an in-window product with u: the users
\* of positive similarity to u.
Neighbours(u) ==
    {v \in UserIds \ {u} : InteractedInWindow(v) \cap InteractedInWindow(u) # {}}

\* C15: the collaborative score of a product the target user touched is 0,
\* with and without exclude_interacted, and a product has a positive
\* collaborative score only if a neighbour touched it.
C15_CollabOnlyUntouched ==
    IsHybrid =>
        \A p \in DOMAIN response.run.collab_scores :
            /\ p \in InteractedInWindow(Call.user_id)
                   => response.run.collab_scores[p] = 0
            /\ response.run.collab_scores[p] > 0
                   => \E v \in Neighbours(Call.user_id) : p \in InteractedInWindow(v)

C15_Witness ==
    /\ IsHybrid
    /\ ~Call.exclude_interacted
    /\ \E r \in DOMAIN Recs :
           /\ Recs[r].product_id \in InteractedInWindow(Call.user_id)
           /\ Recs[r].collab_score = 0
           /\ \E v \in Neighbours(Call.user_id) :
                  Recs[r].product_id \in InteractedInWindow(v)
    /\ \E p \in DOMAIN response.run.collab_scores :
           response.run.collab_scores[p] > 0

\* C16: in cold start the returned products are in descending order of
\* in-window interaction count, and of two products of equal count the one
\* of the higher average rating comes first.
C16_TiesByRating ==
    IsColdStart =>
        \A i, j \in DOMAIN Recs :
            i < j =>
                \/ InteractionCount(Recs[i].product_id)
                       > InteractionCount(Recs[j].product_id)
                \/ /\ InteractionCount(Recs[i].product_id)
                          = InteractionCount(Recs[j].product_id)
                   /\ products[Recs[i].product_id].rating
                          >= products[Recs[j].product_id].rating


\* The products some interaction of the lookback window is about.
RecentlyTouched ==
    {interactions[i].product_id :
         i \in {j \in DOMAIN interactions :
                    now - interactions[j].timestamp <= recency_days * HoursPerDay}}

\* C17 as stated: a cold-start call returns min(top_k, number of products)
\* results, a product without an in-window interaction being a candidate of
\* count 0.
C17_AsStated ==
    IsColdStart => Len(Recs) = Min2(Call.top_k, Len(products))

\* C17: the cold-start popularity ranking is computed over the products with
\* at least one in-window interaction: a product without one is never
\* returned, and a cold-start call returns min(top_k, number of products
\* with an in-window interaction) results, each product at most once.
C17_ColdStartOverTouched ==
    IsColdStart =>
        /\ Len(Recs) = Min2(Call.top_k, Cardinality(RecentlyTouched))
        /\ \A i \in DOMAIN Recs : Recs[i].product_id \in RecentlyTouched
        /\ \A i, j \in DOMAIN Recs :
               Recs[i].product_id = Recs[j].product_id => i = j

\* A cold-start call that asks for two products of a store of at least two
\* and receives one, the only product with an in-window interaction.
C17_Witness ==
    /\ IsColdStart
    /\ Call.top_k = 2
    /\ Len(products) >= 2
    /\ Cardinality(RecentlyTouched) = 1
    /\ Len(Recs) = 1


IsPopularCall == response # NoResponse /\ response.call.kind = "popular_products"

\* C18: the cold-start result at 1-based rank r has score exactly
\* 1.0 - 0.05 x r; the score is strictly decreasing in the rank and is not
\* clamped: positive below rank 20, 0 at rank 20, negative above rank 20.
C18_SyntheticScore ==
    IsPopularCall =>
        LET out == response.output
        IN /\ Len(out) = Min2(response.call.top_k, Len(response.call.rows))
           /\ \A r \in DOMAIN out :
                  /\ out[r].rank = r
                  /\ out[r].score * 20 = Scale * 20 - Scale * r
                  /\ r < 20 => out[r].score > 0
                  /\ r = 20 => out[r].score = 0
                  /\ r > 20 => out[r].score < 0
           /\ \A r, s \in DOMAIN out : r < s => out[r].score > out[s].score

\* A call that returns more than twenty rows: rank 20 of score 0 and rank 21
\* of a negative score.
C18_Witness ==
    /\ IsPopularCall
    /\ Len(response.output) > 20
    /\ response.output[20].score = 0
    /\ response.output[21].score < 0


\* C19: when the store holds no product, get_recommendations returns the
\* empty sequence for every user id and every top_k.  (Without a product
\* there is no interaction either, so every such call is a cold start.)
C19_NoProductsNoResults ==
    /\ products = <<>> => interactions = <<>>
    /\ IsRecommendation /\ products = <<>> =>
           /\ response.cold_start
           /\ Recs = <<>>

\* A call for an existing user in a store without products.
C19_Witness ==
    /\ IsRecommendation
    /\ products = <<>>
    /\ Call.user_id \in UserIds
    /\ Call.top_k = MaxTopK
    /\ Recs = <<>>


\* The most a product's similarity to a profile can be when the divisions
\* that are not performed contribute nothing: 0.4 for the category share
\* and 0.2 for each of the brand share, the price proximity and the
\* attribute overlap.
SimilarityCeiling(product, user_profile) ==
    (IF CategoryDivisors(product, user_profile) = {} THEN 0 ELSE 4 * (Scale \div 10))
        + (IF BrandDivisors(product, user_profile) = {} THEN 0 ELSE 2 * (Scale \div 10))
        + (IF PriceDivisors(product, user_profile) = {} THEN 0 ELSE 2 * (Scale \div 10))
        + (IF AttributeDivisors(product, user_profile) = {} THEN 0 ELSE 2 * (Scale \div 10))

\* The divisions of one call divide by no zero, and a division that its
\* guard skips leaves a score of 0.
DivisionsDefined(user_id, user_interactions, matrix) ==
    /\ 0 \notin EngineDivisors(user_id, user_interactions)
    /\ \A u, v \in DOMAIN matrix :
           CosineDivisors(matrix[u], matrix[v]) = {}
               => CosineSimilarity(matrix[u], matrix[v]) = 0
    /\ user_id \in DOMAIN matrix /\ NormalizeDivisors(CollabRaw(user_id, matrix)) = {}
           => \A p \in ProductIds : CollaborativeFiltering(user_id, ProductIds)[p] = 0
    /\ user_interactions # <<>> =>
           LET user_profile == BuildUserProfile(user_interactions)
           IN \A p \in ProductIds :
                  /\ CalculateProductSimilarity(products[p], user_profile) >= 0
                  /\ CalculateProductSimilarity(products[p], user_profile)
                         <= SimilarityCeiling(products[p], user_profile)

PairWeights(u, p) ==
    LET Mine(row) == /\ row.user_id = u
                     /\ row.product_id = p
                     /\ now - row.timestamp <= recency_days * HoursPerDay
        rows == SelectSeq(interactions, Mine)
    IN [k \in DOMAIN rows |->
           (interaction_weights[rows[k].interaction_type] * 10) \div (10 + AgeInDays(rows[k]))]

RecentRowsOf(u) ==
    LET Mine(row) == row.user_id = u /\ now - row.timestamp <= recency_days * HoursPerDay
    IN Reverse(SelectSeq(interactions, Mine))

RowWeight(row) ==
    (interaction_weights[row.interaction_type] * 10) \div (10 + AgeInDays(row))

\* The accumulated weight of the rows whose product has a given category or
\* brand.
CategoryWeight(rows, c) ==
    SumSeq([k \in DOMAIN rows |->
               IF products[rows[k].product_id].category = c THEN RowWeight(rows[k]) ELSE 0])

BrandWeight(rows, b) ==
    SumSeq([k \in DOMAIN rows |->
               IF products[rows[k].product_id].brand = b THEN RowWeight(rows[k]) ELSE 0])

\* A list of favourites names min(3, number of keys) distinct keys, each with
\* its accumulated weight, by descending weight, and no key left out weighs
\* more than a key listed.
IsTopThree(favorites, weight) ==
    /\ Len(favorites) = Min2(3, Cardinality(DOMAIN weight))
    /\ \A i \in DOMAIN favorites :
           /\ favorites[i].key \in DOMAIN weight
           /\ favorites[i].score = weight[favorites[i].key]
    /\ \A i, j \in DOMAIN favorites :
           i < j => /\ favorites[i].key # favorites[j].key
                    /\ favorites[i].score >= favorites[j].score
    /\ \A k \in DOMAIN weight :
           (\A i \in DOMAIN favorites : favorites[i].key # k)
               => \A i \in DOMAIN favorites : favorites[i].score >= weight[k]

InsightsAsClaimed(insights, rows) ==
    LET Purchase(row) == row.interaction_type = "purchase"
        purchases == SelectSeq(rows, Purchase)
    IN /\ insights.total_interactions = Len(rows)
       /\ IsTopThree(insights.favorite_categories,
                     [c \in {products[rows[k].product_id].category : k \in DOMAIN rows}
                          |-> CategoryWeight(rows, c)])
       /\ IsTopThree(insights.favorite_brands,
                     [b \in {products[rows[k].product_id].brand : k \in DOMAIN rows} \ {NoBrand}
                          |-> BrandWeight(rows, b)])
       /\ Len(insights.recent_purchases) = Min2(5, Len(purchases))
       /\ \A k \in DOMAIN insights.recent_purchases :
              insights.recent_purchases[k].product_id = purchases[k].product_id
       /\ rows = <<>> =>
              insights = [total_interactions |-> 0, favorite_categories |-> <<>>,
                          favorite_brands |-> <<>>, avg_price |-> 0,
                          recent_purchases |-> <<>>]

\* C22: get_user_insights reports the number of the user's in-window
\* interactions, the three categories and the three brands of the largest
\* accumulated weight, and the at most five most recent purchases, most
\* recent first; without an in-window interaction it reports zero totals and
\* empty lists.
C22_Insights ==
    IsInsights /\ response.seen = Seen =>
        InsightsAsClaimed(response.insights, RecentRowsOf(Call.user_id))

\* Insights of a user with six in-window purchases over three categories and
\* a view of a fourth: five purchases are listed, and the category that is
\* left out is not the last one the user touched.
C22_Witness ==
    /\ IsInsights
    /\ response.seen = Seen
    /\ response.insights.total_interactions = 6
    /\ Len(response.insights.recent_purchases) = 5
    /\ Len(response.insights.favorite_categories) = 3
    /\ \E k \in 1 .. 5 :
           /\ products[RecentRowsOf(Call.user_id)[k + 1].product_id].category
                  \notin {response.insights.favorite_categories[i].key : i \in 1 .. 3}
           /\ interactions[1].product_id # RecentRowsOf(Call.user_id)[k + 1].product_id

\* Insights of a user whose interactions all left the window.
C22_WitnessEmpty ==
    /\ IsInsights
    /\ response.seen = Seen
    /\ \E i \in DOMAIN interactions : interactions[i].user_id = Call.user_id
    /\ response.insights.total_interactions = 0


IsEngineCall == IsRecommendation \/ IsInsights
HasPrevious == response # NoResponse /\ "previous" \in DOMAIN response

\* Two lists of popular products that differ at most in the order of
\* products of equal interaction count.
SameUpToTies(a, b) ==
    /\ Len(a) = Len(b)
    /\ \A r \in DOMAIN a :
           /\ a[r].score = b[r].score
           /\ a[r].rank = b[r].rank
           /\ InteractionCount(a[r].product_id) = InteractionCount(b[r].product_id)

\* The second of two equal calls repeats the result of the first.
Repeats ==
    IF IsInsights THEN response.insights = response.previous.insights
    ELSE /\ response.cold_start = response.previous.cold_start
         /\ IF response.cold_start
            THEN SameUpToTies(Recs, response.previous.run.recommendations)
            ELSE response.run = response.previous.run

\* C23 as stated: the second of two equal calls on an unchanged store returns
\* the result of the first (read generously: up to the order of popular
\* products of equal count).
C23_AsStated ==
    (HasPrevious
        /\ response.previous.seen.users = users
        /\ response.previous.seen.products = products)
        => Repeats

\* C23: a call of get_recommendations or get_user_insights leaves the users,
\* products, interactions and stored recommendations as they are, and its
\* result is determined by the store and the clock: the second of two equal
\* calls on an unchanged store at the same clock reading returns the result
\* of the first, up to the order of popular products of equal count.
C23_ReadOnly ==
    [][(IsEngineCall' /\ response' # response)
           => /\ UNCHANGED <<users, products, interactions, recommendations>>
              /\ (HasPrevious' /\ response'.previous.seen = response'.seen) => Repeats']_vars

\* A hybrid call repeated at the same clock reading with the same result,
\* in a store with interactions.
C23_Witness ==
    /\ HasPrevious
    /\ IsHybrid
    /\ response.previous.seen = response.seen
    /\ Recs # <<>>
    /\ response.run = response.previous.run


IsGenerate == response # NoResponse /\ response.call.kind = "generate"
IsStored == response # NoResponse /\ response.call.kind = "stored"

\* C24: a failure of the explanation collaborator neither aborts nor alters
\* a recommendation request: whatever the text generation does for each
\* recommendation (a text, a text under 20 characters, an exception), a
\* request for an existing user that meets no database error succeeds and
\* returns the products, scores, ranks and tags the engine produced, and
\* each recommendation whose generation failed carries a non-empty fallback
\* explanation.
C24_ExplanationFailureHarmless ==
    (IsGenerate /\ Call.user_id \in UserIds /\ Call.fault = "none") =>
        /\ response.status = 200
        /\ response.engine \in RecommendationOutcomes(Call.user_id, Call.limit, TRUE,
                                                      DefaultWeights)
        /\ Len(response.rows) = Len(response.engine)
        /\ \A r \in DOMAIN response.rows :
               /\ response.rows[r].product_id = response.engine[r].product_id
               /\ response.rows[r].score = response.engine[r].score
               /\ response.rows[r].rank = response.engine[r].rank
               /\ response.rows[r].algorithm_used = response.engine[r].algorithm_used
               /\ (Call.include_explanation /\ Call.llm[r] # "text") =>
                      /\ response.rows[r].explanation.kind = "fallback"
                      /\ response.rows[r].explanation.sentence # ""

\* A request of two recommendations whose first text generation raises and
\* whose second returns a short text, answered with both.
C24_Witness ==
    /\ IsGenerate
    /\ response.status = 200
    /\ Call.include_explanation
    /\ Len(response.rows) = 2
    /\ Call.llm[1] = "raises"
    /\ Call.llm[2] = "short"
    /\ response.rows[1].explanation.kind = "fallback"
    /\ response.rows[2].explanation.kind = "fallback"


IsStaged == IsRecommendation /\ "at_start" \in DOMAIN response

\* C25: every stage of one get_recommendations invocation works on one
\* snapshot of the store: when create_interaction commits while the
\* invocation runs, the result is that of the whole pipeline on the store
\* before the commit or on the store after it.
C25_SingleSnapshot ==
    IsStaged =>
        \/ Recs \in response.at_start
        \/ Recs \in RecommendationOutcomes(Call.user_id, Call.top_k,
                                           Call.exclude_interacted, Call.weights)


\* The ids of the stored rows of a user, and those of the user's latest
\* generation (the rows of the last request that stored a row for the user).
RowIdsOf(u) == {i \in DOMAIN recommendations : recommendations[i].user_id = u}

LatestRowIdsOf(u) ==
    {i \in RowIdsOf(u) :
         \A j \in RowIdsOf(u) : recommendations[j].request <= recommendations[i].request}

\* C26: GET /recommendations/{user_id} with limit L answers 404 when the
\* user is unknown or has no stored row, and otherwise returns
\* min(L, stored rows of the user) rows of that user, taken from the latest
\* generation first: a row of an older generation is returned only together
\* with every row of the latest one, and behind them.
C26_LatestGenerationFirst ==
    IsStored =>
        /\ response.status = 404
               <=> (Call.user_id \notin UserIds \/ RowIdsOf(Call.user_id) = {})
        /\ response.status # 404 =>
               /\ response.status = 200
               /\ Len(response.rows) = Min2(Call.limit, Cardinality(RowIdsOf(Call.user_id)))
               /\ \A r \in DOMAIN response.rows :
                      /\ response.rows[r] \in {recommendations[i] : i \in RowIdsOf(Call.user_id)}
                      /\ response.rows[r] \notin
                             {recommendations[i] : i \in LatestRowIdsOf(Call.user_id)}
                          => /\ r > Cardinality(LatestRowIdsOf(Call.user_id))
                             /\ \A i \in LatestRowIdsOf(Call.user_id) :
                                    \E q \in 1 .. r - 1 : response.rows[q] = recommendations[i]

\* A user with two generations read with a limit above the size of the
\* latest one, and a user read with a limit below it.
C26_Witness ==
    /\ IsStored
    /\ response.status = 200
    /\ Len(response.rows) = 2
    /\ response.rows[1].request > response.rows[2].request

C26_WitnessCut ==
    /\ IsStored
    /\ response.status = 200
    /\ Len(response.rows) = 1
    /\ Cardinality(LatestRowIdsOf(Call.user_id)) = 2
    /\ Cardinality(RowIdsOf(Call.user_id)) = 3


-----------------------------------------------------------------------------
(* The neighbours on their own: a store of MaxCrowd users, filled once by
   the seed script with one browsing profile per user, on which
   _find_similar_users is called for any user as time passes. *)

CrowdUsers == [u \in 1 .. MaxCrowd |-> ToString(u) \o "@shop.test"]

\* The profiles of a seeded user: a buyer of product 1, a viewer of
\* product 1 who bought product 2, and a viewer of product 3.
CrowdProfiles ==
    {<<[product_id |-> 1, interaction_type |-> "purchase"]>>,
     <<[product_id |-> 1, interaction_type |-> "view"],
       [product_id |-> 2, interaction_type |-> "purchase"]>>,
     <<[product_id |-> 3, interaction_type |-> "view"]>>}

RECURSIVE CrowdRows(_, _)
\* The interactions of users u .. MaxCrowd under the profiles chosen.
CrowdRows(profile, u) ==
    IF u > MaxCrowd THEN <<>>
    ELSE [k \in DOMAIN profile[u] |->
             [user_id |-> u, product_id |-> profile[u][k].product_id,
              interaction_type |-> profile[u][k].interaction_type,
              timestamp |-> now]] \o CrowdRows(profile, u + 1)

InitNeighbours ==
    /\ users = CrowdUsers
    /\ products = SeedProducts
    /\ interactions = <<>>
    /\ recommendations = <<>>
    /\ now = 0
    /\ response = NoResponse

\* seed_interactions: the generated batch is inserted.
SeedInteractions(profile) ==
    /\ interactions' = interactions \o CrowdRows(profile, 1)
    /\ UNCHANGED <<users, products, recommendations, now, response>>

\* One call of _find_similar_users on the matrix of the store.
FindSimilarUsersCall(user_id) ==
    /\ Idle
    /\ response' = [call |-> [kind |-> "find_similar_users", user_id |-> user_id],
                    output |-> FindSimilarUsers(user_id, BuildUserProductMatrix)]
    /\ UNCHANGED <<users, products, interactions, recommendations, now>>

NextNeighbours ==
    \/ \E profile \in [1 .. MaxCrowd -> CrowdProfiles] :
           /\ Idle
           /\ interactions = <<>>
           /\ SeedInteractions(profile)
    \/ Tick
    \/ Return
    \/ \E u \in 1 .. MaxCrowd + 1 : FindSimilarUsersCall(u)

SpecNeighbours == InitNeighbours /\ [][NextNeighbours]_vars

IsNeighbourCall == response.call.kind = "find_similar_users"

\* The users who share a product with u inside the window.
Sharing(u) ==
    {v \in UserIds \ {u} :
         \E i, j \in WindowIds : /\ interactions[i].user_id = u
                                 /\ interactions[j].user_id = v
                                 /\ interactions[i].product_id = interactions[j].product_id}

\* The similarity of two users of the matrix.
Similarity(u, v) == CosineSimilarity(UserVector(u), UserVector(v))

ChosenNeighbours == {response.output[k].user_id : k \in DOMAIN response.output}

\* C27: the neighbours are at most 5 distinct users other than the target,
\* each sharing a product with the target and of similarity above 0, and no
\* user left out is more similar to the target than a neighbour.
C27_Neighbours ==
    IsNeighbourCall =>
        /\ Len(response.output) <= 5
        /\ Cardinality(ChosenNeighbours) = Len(response.output)
        /\ ChosenNeighbours \subseteq Sharing(response.call.user_id)
        /\ \A k \in DOMAIN response.output :
               /\ response.output[k].score > 0
               /\ response.output[k].score
                      = Similarity(response.call.user_id, response.output[k].user_id)
        /\ \A v \in (MatrixUsers \ {response.call.user_id}) \ ChosenNeighbours :
               \A k \in DOMAIN response.output :
                   Similarity(response.call.user_id, v) <= response.output[k].score
        /\ \A v \in (UserIds \ MatrixUsers) \ {response.call.user_id} : v \notin ChosenNeighbours

\* Six users share a product with the target and the one left out is less
\* similar to it than the five neighbours.
C27_Witness ==
    /\ IsNeighbourCall
    /\ Len(response.output) = 5
    /\ Cardinality(Sharing(response.call.user_id)) > 5
    /\ \E v \in Sharing(response.call.user_id) \ ChosenNeighbours :
           Similarity(response.call.user_id, v) < response.output[5].score


\* Fewer than five users share a product with the target: all of them are
\* neighbours, in two grades of similarity, and a user who shares none is not.
C27_WitnessFew ==
    /\ IsNeighbourCall
    /\ Len(response.output) \in 2 .. 4
    /\ response.output[1].score > response.output[Len(response.output)].score
    /\ (MatrixUsers \ {response.call.user_id}) \ Sharing(response.call.user_id) # {}


\* M: the number of items the diversity filter accepts from the full
\* score-descending list of the eligible products of a hybrid response.
AcceptedOfAll ==
    Len(ApplyDiversityFilter(SortDesc(response.run.hybrid_scores), max_per_category))

\* C28: on the hybrid path get_recommendations returns min(top_k, M)
\* recommendations, M being the number of items the diversity filter accepts
\* from the full score-descending list of eligible products.
C28_FillsTopK ==
    IsHybrid => Len(Recs) = Min2(Call.top_k, AcceptedOfAll)


\* C29: a list returned by get_recommendations, on the hybrid and on the
\* popularity path, has at most top_k entries, holds each product id at most
\* once, and its scores never grow from one rank to the next.
C29_BoundedDistinctSorted ==
    IsRecommendation =>
        /\ Len(Recs) <= Call.top_k
        /\ \A i, j \in DOMAIN Recs : i # j => Recs[i].product_id # Recs[j].product_id
        /\ \A r \in 1 .. Len(Recs) - 1 : Recs[r].score >= Recs[r + 1].score

\* A hybrid list and a popularity list of two or more entries that fill
\* top_k, the hybrid one with a strictly smaller score further down.
C29_Witness ==
    /\ IsHybrid
    /\ Len(Recs) = Call.top_k
    /\ Len(Recs) >= 2
    /\ Recs[1].score > Recs[Len(Recs)].score

C29_WitnessPopular ==
    /\ IsColdStart
    /\ Len(Recs) = Call.top_k
    /\ Len(Recs) >= 2


\* C30: POST /recommendations/generate stores all or nothing: a request that
\* succeeds adds one row per returned recommendation (same user, product,
\* score, rank and tag) and nothing else, and a request that fails (404 or
\* 500) leaves the table as it was.
C30_AllOrNothing ==
    [][(IsGenerate' /\ response' # response) =>
           IF response'.status = 200
           THEN /\ Len(recommendations') = Len(recommendations) + Len(response'.engine)
                /\ SubSeq(recommendations', 1, Len(recommendations)) = recommendations
                /\ \A r \in DOMAIN response'.engine :
                       LET row == recommendations'[Len(recommendations) + r]
                       IN /\ row.user_id = response'.call.user_id
                          /\ row.product_id = response'.engine[r].product_id
                          /\ row.score = response'.engine[r].score
                          /\ row.rank = response'.engine[r].rank
                          /\ row.algorithm_used = response'.engine[r].algorithm_used
           ELSE recommendations' = recommendations]_vars

====
